---------------------------- MODULE Spec2Model ----------------------------
(***************************************************************************)
(* A state-machine model of py_utility.mysql_client.MySQLClient            *)
(* (src/src/py_utility/mysql_client.py).                                   *)
(*                                                                         *)
(* Every call a caller makes on the client is followed step by step: one   *)
(* action per call into the driver (pool.connection(), conn.cursor(),      *)
(* cursor.execute(), conn.commit(), conn.rollback(), cursor.close(),       *)
(* conn.close(), conn.ping(), time.sleep()).  A driver call that can raise *)
(* draws its outcome from Outcomes: it succeeds, raises a transient error  *)
(* (pymysql.OperationalError / pymysql.InterfaceError) or raises any other *)
(* Exception ("fatal").  cursor.close() and conn.close() hand the cursor   *)
(* and the connection back and are taken to complete (the pooled           *)
(* connection's close() only puts it back into the pool).  Exceptions that *)
(* are not subclasses of Exception (KeyboardInterrupt, SystemExit) are not *)
(* modelled.                                                               *)
(*                                                                         *)
(* The connection pool (dbutils PooledDB) is a library: it is modelled by  *)
(* the way _init_pool configures it: at most MaxConnections connections    *)
(* handed out at a time, acquisition blocks while all are handed out, and  *)
(* it never hands out a connection that is handed out already.  Which of   *)
(* the free connections it hands out is its own choice.                    *)
(***************************************************************************)
EXTENDS Integers, Sequences, FiniteSets, TLC

(***************************************************************************)
(* Bounds of the model.                                                    *)
(***************************************************************************)
\* largest retry_count a call is made with (the source's default is 3)
MaxRetry == 4
\* largest max_connections a client is constructed with (the source's
\* default is 20)
MaxConnections == 2
\* statements a transaction body executes at most
MaxBodyStmts == 2
\* rows a query returns at most
MaxRows == 2
\* callers of the concurrent specification
NumCallers == 2

\* retry_count <= 0 is covered by -1 and 0
RetryCounts == (-1)..MaxRetry
\* retry_delay, in units of the source's default of 0.5 s
RetryDelays == {1, 3}
NoConn == 0

Outcomes == {"ok", "transient", "fatal"}
Failures == {"transient", "fatal"}

RetryOps == {"execute", "execute_many", "query", "query_one",
             "insert", "update", "delete"}
\* the operations that commit and roll back themselves
WriteOps == {"execute", "execute_many", "insert", "update", "delete"}
QueryOps == {"query", "query_one"}
Ops == RetryOps \cup {"ping", "transaction"}

VARIABLES
    max_connections, \* self.max_connections, the size of the pool
    pool,         \* self._pool: "open" (a PooledDB) or "none" (None)
    borrowed,     \* connections of the pool handed out and not given back
    op,           \* per caller: the operation it is in ("none" when idle)
    pc,           \* per caller: its position in that operation
    retry_count,  \* per caller: argument retry_count
    retry_delay,  \* per caller: argument retry_delay
    attempt,      \* per caller: loop variable attempt
    conn,         \* per caller: local conn (NoConn when unbound)
    exc,          \* per caller: the exception propagating at pc
    last_error,   \* per caller: local last_error
    resp,         \* per caller: what the server answered to the statement
    nstmt,        \* per caller: statements the transaction body has run
    args,         \* per caller: whether the arguments data (params_list for
                  \*   execute_many) and where of the call are empty
    owns_connection, \* per caller: local owns_connection of _get_cursor
    result,       \* per caller: how the call ended
    trace,        \* per caller, history: the driver calls and log records
                  \*   of the current attempt, in order
    hist          \* per caller, history of the whole call: acq, the calls
                  \*   of _get_connection; sleeps, the delays slept

dbVars == <<max_connections, pool, borrowed, op, pc, retry_count, retry_delay, attempt, conn,
            exc, last_error, resp, nstmt, args, owns_connection, result,
            trace, hist>>

(***************************************************************************)
(* The state of py_utility.xt.xiatui.XiaTuiNotifier                        *)
(* (src/src/py_utility/xt/xiatui.py): the class attributes, the attributes *)
(* of the notifier objects, the threads that call the class and the worker *)
(* threads.  Points in time are kept as ages (the time that has passed     *)
(* since), which stop growing at the value they are compared with.         *)
(***************************************************************************)
VARIABLES
    instance,        \* cls._instance: a notifier object, or None
    initialized,     \* cls._initialized
    created,         \* the notifier objects made so far
    token,           \* per object: self._token (None: no such attribute)
    base_url,        \* per object: self._base_url
    message_queue,   \* per object: self._message_queue, the threads whose
                     \*   messages wait in it, in order
    unfinished_tasks, \* per object: the queue's count of tasks not done
    worker_thread,   \* per object: self._worker_thread (None or a thread)
    last_send_time,  \* per object: the age of self._last_send_time
    cpc,             \* per calling thread: its position
    ref,             \* per calling thread: the notifier object it holds
    future,          \* per calling thread: the result queue of its message
    outcome,         \* per calling thread: its call and how it ended
    wpc,             \* per worker thread: its position in _worker_loop
    wself,           \* per worker thread: the object it works for
    message,         \* per worker thread: the thread whose message it has
    last_message_time, \* per worker thread: the age of last_message_time
    current_time,    \* per worker thread: the age of current_time
    sleep_time,      \* per worker thread: what is left of its sleep
    join_wait,       \* how long the join() of reset() has waited
    posted,          \* history, per calling thread: the post made for its
                     \*   message ("none", "started", "ok", "failed")
    cancelled,       \* history, per calling thread: reset() took its message
    enqueued,        \* history: the threads whose send() has put its message
                     \*   and has not returned yet, in the order of the puts
    since_post       \* history, per object: the age of the start of its
                     \* latest post

xtVars == <<instance, initialized, created, token, base_url, message_queue,
            unfinished_tasks, worker_thread, last_send_time, cpc, ref, future,
            outcome, wpc, wself, message, last_message_time, current_time,
            sleep_time, join_wait, posted, cancelled, enqueued, since_post>>

(***************************************************************************)
(* LoggerManager (logging.py): the class attributes, what init_logging     *)
(* configures, and the last call.                                          *)
(***************************************************************************)
VARIABLES
    lm_initialized,  \* LoggerManager._initialized
    lm_logger,       \* LoggerManager._logger
    root_level,      \* the level of the root logger
    root_handlers,   \* the handlers of the root logger
    structlog_level, \* the level of the structlog wrapper class ("none":
                     \*   structlog.configure was not called)
    lcall,           \* the last call on the logging module and how it ended
    called,          \* history: init_logging, get_logger or a log function
                     \*   was called since the last reset
    returned,        \* history: such a call has returned since then
    first_config     \* history: level and file of the initialisation that
                     \*   was completed first since the last reset

logVars == <<lm_initialized, lm_logger, root_level, root_handlers,
             structlog_level, lcall, called, returned, first_config>>

(***************************************************************************)
(* The module-level client of mysql_client.py (lines 605-636): the global  *)
(* _mysql_client and the threads that call init_mysql_client and           *)
(* get_mysql_client.                                                       *)
(***************************************************************************)
VARIABLES
    mysql_client,    \* the global _mysql_client: a MySQLClient, or None
    clients,         \* the MySQLClient objects (pools) made so far
    gpc,             \* per thread: its position in the call
    gcall,           \* per thread: the function it calls ("none": idle)
    gresult,         \* per thread: how its latest call ended
    lazy,            \* history: the clients made by get_mysql_client
    replaced         \* history: init_mysql_client was called

glVars == <<mysql_client, clients, gpc, gcall, gresult, lazy, replaced>>

vars == <<dbVars, xtVars, logVars, glVars>>

Callers == DOMAIN pc
\* the connections of the pool
ConnIds == 1..max_connections

(***************************************************************************)
(* Exceptions, results, events.                                            *)
(***************************************************************************)
\* an exception object: its class, the call that raised it, the attempt
Exc(kind, at, n) == [kind |-> kind, at |-> at, n |-> n]
NoExc == Exc("none", "none", 0)
ValueError == Exc("fatal", "validate", 0)
RuntimeError == Exc("fatal", "exhausted", 0)

NoResp == [rowcount |-> 0, lastrowid |-> 0, rows |-> <<>>]
\* the absent marker None, as a value
None == -1
NoResult == [status |-> "none", value |-> None, rows |-> <<>>, exc |-> NoExc]
Returned(v, rows) ==
    [status |-> "returned", value |-> v, rows |-> rows, exc |-> NoExc]
Raised(e) == [status |-> "raised", value |-> None, rows |-> <<>>, exc |-> e]

\* an event of the trace: a driver call that returned (arg: the connection of
\* acquire and close, the delay of sleep, 0 or 1 otherwise), one that raised
Ev(name, arg) == [ev |-> name, arg |-> arg, out |-> "ok"]
Fail(name, kind) == [ev |-> name, arg |-> 0, out |-> kind]
NoHist == [acq |-> 0, sleeps |-> <<>>]
Args(data_empty, where_empty) ==
    [data_empty |-> data_empty, where_empty |-> where_empty]
NoArgs == Args(FALSE, FALSE)


(***************************************************************************)
(* Small helpers of the actions.                                           *)
(***************************************************************************)
Upd(f, t, v) == [f EXCEPT ![t] = v]
\* the events es follow in the attempt's trace; they start a new one
Log(t, es) == trace' = [trace EXCEPT ![t] = @ \o es]
Start(t, es) == trace' = [trace EXCEPT ![t] = es]

\* the call ends: it returns or raises `res`
End(t, res) ==
    /\ pc' = Upd(pc, t, "done")
    /\ result' = Upd(result, t, res)

\* the call goes on at position p
Goto(t, p) ==
    /\ pc' = Upd(pc, t, p)
    /\ UNCHANGED result

\* (mutant of LoopHead: one attempt too many)
LoopHeadOneMore(t, a, rc, le) ==
    IF a <= rc
    THEN Goto(t, "get_conn")
    ELSE End(t, Raised(IF le # NoExc THEN le ELSE RuntimeError))

\* (mutant of LoopHead: a retry goes on with the connection it has)
LoopHeadReuse(t, a, rc, le) ==
    IF a < rc
    THEN Goto(t, IF a = 0 THEN "get_conn" ELSE "cursor")
    ELSE End(t, Raised(IF le # NoExc THEN le ELSE RuntimeError))

\* (mutant of LoopHead: the error of the first failed attempt is kept)
LoopHeadFirstError(t, a, rc, le) ==
    IF a < rc
    THEN Goto(t, "get_conn")
    ELSE End(t, Raised(IF last_error[t] # NoExc THEN last_error[t]
                       ELSE IF le # NoExc THEN le ELSE RuntimeError))

\* `for attempt in range(retry_count)` entered with attempt = a: the next
\* attempt starts, or the loop is over and `raise last_error or RuntimeError`
LoopHead(t, a, rc, le) ==
    IF a < rc
    THEN Goto(t, "get_conn")
    ELSE End(t, Raised(IF le # NoExc THEN le ELSE RuntimeError))

\* (mutant of Validate: the where condition is not looked at)
ValidateDataOnly(o, data_empty, where_empty) ==
    CASE o \in {"insert", "update"} /\ data_empty -> "raise"
      [] o = "execute_many" /\ data_empty -> "zero"
      [] OTHER -> "go"

\* (mutant of Validate: execute_many does not look for an empty list)
ValidateNoBatchCheck(o, data_empty, where_empty) ==
    CASE o = "insert" /\ data_empty -> "raise"
      [] o = "update" /\ (data_empty \/ where_empty) -> "raise"
      [] o = "delete" /\ where_empty -> "raise"
      [] OTHER -> "go"

\* what the write helpers and execute_many do before any attempt
Validate(o, data_empty, where_empty) ==
    CASE o = "insert" /\ data_empty -> "raise"
      [] o = "update" /\ (data_empty \/ where_empty) -> "raise"
      [] o = "delete" /\ where_empty -> "raise"
      [] o = "execute_many" /\ data_empty -> "zero"
      [] OTHER -> "go"

\* the arguments an operation reads (the others are fixed, to keep one state
\* per call that does not depend on them)
DataArgs(o) ==
    IF o \in {"insert", "update", "execute_many"} THEN BOOLEAN ELSE {FALSE}
WhereArgs(o) == IF o \in {"update", "delete"} THEN BOOLEAN ELSE {FALSE}
CountArgs(o, counts) == IF o \in RetryOps THEN counts ELSE {0}
DelayArgs(o, delays) == IF o \in RetryOps THEN delays ELSE {0}

\* what the server can answer to a statement of operation o; the rows of a
\* result set are told apart by their place in it
Rows(n) == [i \in 1..n |-> i]
Responses(o) ==
    CASE o \in QueryOps ->
           {[rowcount |-> n, lastrowid |-> 0, rows |-> Rows(n)] :
              n \in 0..MaxRows}
      [] o = "insert" ->
           {[rowcount |-> 1, lastrowid |-> l, rows |-> <<>>] : l \in 1..MaxRows}
      [] OTHER ->
           {[rowcount |-> n, lastrowid |-> 0, rows |-> <<>>] : n \in 0..MaxRows}

\* (mutant of ReturnValue: insert returns the affected-row count)
ReturnValueRowcount(o, r) ==
    CASE o = "query" -> Returned(None, r.rows)
      [] o = "query_one" ->
           Returned(IF r.rows # <<>> THEN r.rows[1] ELSE None, <<>>)
      [] o = "ping" -> Returned(1, <<>>)
      [] o \in {"transaction", "get_cursor"} -> Returned(None, <<>>)
      [] OTHER -> Returned(r.rowcount, <<>>)

\* (mutant of ReturnValue: query_one returns the last row)
ReturnValueLastRow(o, r) ==
    CASE o = "insert" -> Returned(r.lastrowid, <<>>)
      [] o = "query" -> Returned(None, r.rows)
      [] o = "query_one" ->
           Returned(IF r.rows # <<>> THEN r.rows[Len(r.rows)] ELSE None,
                    <<>>)
      [] o = "ping" -> Returned(1, <<>>)
      [] o \in {"transaction", "get_cursor"} -> Returned(None, <<>>)
      [] OTHER -> Returned(r.rowcount, <<>>)

\* what the operation returns after a successful attempt
ReturnValue(o, r) ==
    CASE o = "insert" -> Returned(r.lastrowid, <<>>)
      [] o = "query" -> Returned(None, r.rows)
      [] o = "query_one" ->
           Returned(IF r.rows # <<>> THEN r.rows[1] ELSE None, <<>>)
      [] o = "ping" -> Returned(1, <<>>)
      [] o \in {"transaction", "get_cursor"} -> Returned(None, <<>>)
      [] OTHER -> Returned(r.rowcount, <<>>)

(***************************************************************************)
(* LoggerManager: the values of a run and the state at import.             *)
(***************************************************************************)
\* the level names the logging module knows
LevelNames == {"DEBUG", "INFO", "WARNING", "ERROR", "CRITICAL"}
\* logging.DEBUG ... logging.CRITICAL
LevelNo(name) ==
    CASE name = "DEBUG" -> 10
      [] name = "INFO" -> 20
      [] name = "WARNING" -> 30
      [] name = "ERROR" -> 40
      [] name = "CRITICAL" -> 50
\* str.upper() on the level names of a run
Upper(s) ==
    CASE s = "debug" -> "DEBUG"
      [] s = "info" -> "INFO"
      [] OTHER -> s
\* getattr(logging, log_level.upper(), logging.INFO)
LevelOf(log_level) ==
    IF Upper(log_level) \in LevelNames THEN Upper(log_level) ELSE "INFO"

\* None where the other values are strings: an argument or a setting that
\* is not given
Unset == "None"
\* the log_level and log_file arguments of a run
LevelArgs == {Unset, "DEBUG", "debug", "ERROR", "TRACE"}
FileArgs == {Unset, "logs/info.log"}
\* LOG_LEVEL and LOG_FILE of the settings ("VERBOSE": not a level)
ConfigLevels == {"INFO", "debug", "VERBOSE"}
ConfigFiles == {Unset, "logs/cfg.log"}
\* the log functions of the module and the level each logs at
LogFunctions ==
    {"debug", "info", "warning", "error", "critical", "exception"}
FunctionLevel(fn) ==
    CASE fn = "debug" -> "DEBUG"
      [] fn = "info" -> "INFO"
      [] fn = "warning" -> "WARNING"
      [] fn = "error" -> "ERROR"
      [] fn = "critical" -> "CRITICAL"
      [] fn = "exception" -> "ERROR"

ConsoleHandler(level) ==
    [kind |-> "console", level |-> level, file |-> Unset]
FileHandler(level, file) == [kind |-> "file", level |-> level, file |-> file]
NoConfig == <<>>
\* a call on the module: which one, how it ended, and what it gave
LCall(call, status, value) ==
    [call |-> call, status |-> status, value |-> value]

LogInit ==
    /\ lm_initialized = FALSE
    /\ lm_logger = None
    /\ root_level = "WARNING"
    /\ root_handlers = {}
    /\ structlog_level = "none"
    /\ lcall = LCall("none", "none", None)
    /\ called = FALSE
    /\ returned = FALSE
    /\ first_config = NoConfig

(***************************************************************************)
(* XiaTuiNotifier: bounds, the constants of the source, and the state      *)
(* before the first construction.                                          *)
(***************************************************************************)
\* threads that call the notifier; thread Main makes the calls on the class
\* (construction, reset), one at a time
NumThreads == 2
\* worker threads that exist at a time
MaxWorkers == 1
\* notifier objects made in one run
MaxInstances == 2
\* tokens a construction is called with
MaxTokens == 2

\* self._min_interval = 6.0
min_interval == 6
\* idle_timeout = 5.0
idle_timeout == 5
\* _worker_thread.join(timeout=5.0)
join_timeout == 5

\* the threads that call the notifier, the Thread objects of its workers and
\* the notifier objects of a run
Threads == DOMAIN cpc
Workers == DOMAIN wpc
Instances == DOMAIN token
Tokens == 1..MaxTokens
\* the thread that constructs and resets the notifier
Main == CHOOSE t \in Threads : \A u \in Threads : t <= u

\* f"https://wx.xtuis.cn/{token}.send"
BaseUrl(tok) == <<"https://wx.xtuis.cn/", tok, ".send">>

\* a call of a thread: what was called, with which argument, and how it
\* ended
Outcome(call, arg, status, value) ==
    [call |-> call, arg |-> arg, status |-> status, value |-> value]
NoOutcome == Outcome("none", None, "none", None)

XtInit(threads, workers, instances) ==
    /\ instance = None
    /\ initialized = FALSE
    /\ created = 0
    /\ token = [i \in 1..instances |-> None]
    /\ base_url = [i \in 1..instances |-> None]
    /\ message_queue = [i \in 1..instances |-> <<>>]
    /\ unfinished_tasks = [i \in 1..instances |-> 0]
    /\ worker_thread = [i \in 1..instances |-> None]
    /\ last_send_time = [i \in 1..instances |-> min_interval]
    /\ cpc = [t \in 1..threads |-> "idle"]
    /\ ref = [t \in 1..threads |-> None]
    /\ future = [t \in 1..threads |-> "none"]
    /\ outcome = [t \in 1..threads |-> NoOutcome]
    /\ wpc = [w \in 1..workers |-> "unborn"]
    /\ wself = [w \in 1..workers |-> None]
    /\ message = [w \in 1..workers |-> None]
    /\ last_message_time = [w \in 1..workers |-> None]
    /\ current_time = [w \in 1..workers |-> 0]
    /\ sleep_time = [w \in 1..workers |-> 0]
    /\ join_wait = 0
    /\ posted = [t \in 1..threads |-> "none"]
    /\ cancelled = [t \in 1..threads |-> FALSE]
    /\ enqueued = <<>>
    /\ since_post = [i \in 1..instances |-> None]

\* the module after import: _mysql_client is None, no thread in a call
NoGResult == [status |-> "none", value |-> None]
GlInit(threads) ==
    /\ mysql_client = None
    /\ clients = 0
    /\ gpc = [t \in 1..threads |-> "idle"]
    /\ gcall = [t \in 1..threads |-> "none"]
    /\ gresult = [t \in 1..threads |-> NoGResult]
    /\ lazy = {}
    /\ replaced = FALSE

(***************************************************************************)
(* Init: a client right after construction (the pool is open, of the size  *)
(* the constructor was given), every caller idle.                          *)
(***************************************************************************)
DbInit(n, sizes) ==
    /\ max_connections \in sizes
    /\ pool = "open"
    /\ borrowed = {}
    /\ op = [t \in 1..n |-> "none"]
    /\ pc = [t \in 1..n |-> "idle"]
    /\ retry_count = [t \in 1..n |-> 0]
    /\ retry_delay = [t \in 1..n |-> 0]
    /\ attempt = [t \in 1..n |-> 0]
    /\ conn = [t \in 1..n |-> NoConn]
    /\ exc = [t \in 1..n |-> NoExc]
    /\ last_error = [t \in 1..n |-> NoExc]
    /\ resp = [t \in 1..n |-> NoResp]
    /\ nstmt = [t \in 1..n |-> 0]
    /\ args = [t \in 1..n |-> NoArgs]
    /\ owns_connection = [t \in 1..n |-> FALSE]
    /\ result = [t \in 1..n |-> NoResult]
    /\ trace = [t \in 1..n |-> <<>>]
    /\ hist = [t \in 1..n |-> NoHist]

\* the client with n callers; the notifier is there and not used
InitCallers(n, sizes) ==
    DbInit(n, sizes) /\ XtInit(1, 1, 1) /\ LogInit /\ GlInit(1)

\* the notifier with its threads; the client is there and not used
InitXt(threads, workers, instances) ==
    /\ DbInit(1, {MaxConnections})
    /\ XtInit(threads, workers, instances)
    /\ LogInit
    /\ GlInit(1)

\* one caller holds one connection at a time: the pool has room to spare
Init == InitCallers(1, {MaxConnections})

(***************************************************************************)
(* A caller starts an operation.  The validation of the write helpers, the *)
(* empty batch of execute_many and the loop head of the first attempt are  *)
(* part of the step: none of them calls the driver.                        *)
(***************************************************************************)
Call(t, ops, counts, delays) ==
    /\ pc[t] = "idle"
    /\ \E o \in ops :
       \E rc \in CountArgs(o, counts), rd \in DelayArgs(o, delays),
          data_empty \in DataArgs(o), where_empty \in WhereArgs(o) :
         /\ op' = Upd(op, t, o)
         /\ retry_count' = Upd(retry_count, t, rc)
         /\ retry_delay' = Upd(retry_delay, t, rd)
         /\ args' = Upd(args, t, Args(data_empty, where_empty))
         /\ trace' = Upd(trace, t, <<>>)
         /\ hist' = Upd(hist, t, NoHist)
         /\ CASE Validate(o, data_empty, where_empty) = "raise" ->
                   End(t, Raised(ValueError))
              [] Validate(o, data_empty, where_empty) = "zero" ->
                   End(t, Returned(0, <<>>))
              [] OTHER ->
                   IF o \in RetryOps
                   THEN LoopHead(t, 0, rc, NoExc)
                   ELSE Goto(t, "get_conn")
    /\ UNCHANGED <<max_connections, pool, borrowed, attempt, conn, exc, last_error, resp,
                   nstmt, owns_connection>>

(***************************************************************************)
(* _get_connection: the pool is created again when self._pool is None,     *)
(* then pool.connection() hands out a connection, blocks while none is     *)
(* free (blocking=True), or raises.                                        *)
(***************************************************************************)
\* (mutant of AfterAcquireError: ping has no except clause)
AfterAcquireErrorPingRaises(t, e) ==
    CASE op[t] \in RetryOps ->
           /\ Goto(t, "except")
           /\ exc' = Upd(exc, t, e)
      [] OTHER ->
           /\ End(t, Raised(e))
           /\ UNCHANGED exc

\* (mutant of AfterAcquireError: the acquisition is made before the try
\* block of the retry loop, its error leaves the call at once)
AfterAcquireErrorNoRetry(t, e) ==
    CASE op[t] = "ping" ->
           /\ End(t, Returned(0, <<>>))
           /\ UNCHANGED exc
      [] OTHER ->
           /\ End(t, Raised(e))
           /\ UNCHANGED exc

\* where an exception raised by _get_connection is handled
AfterAcquireError(t, e) ==
    CASE op[t] \in RetryOps ->
           /\ Goto(t, "except")
           /\ exc' = Upd(exc, t, e)
      [] op[t] = "ping" ->
           /\ End(t, Returned(0, <<>>))
           /\ UNCHANGED exc
      [] OTHER ->
           /\ End(t, Raised(e))
           /\ UNCHANGED exc

AfterAcquire(t) ==
    IF op[t] = "ping" THEN Goto(t, "ping") ELSE Goto(t, "cursor")

\* the log records of a failed acquisition that ping adds (logger.warning)
AcquireErrorLogs(t) ==
    IF op[t] = "ping" THEN <<Ev("log_warning", 0)>> ELSE <<>>

\* (mutant of GetConnection: a closed pool is not created again)
GetConnectionStaysClosed(t) ==
    /\ pc[t] = "get_conn"
    /\ \/ /\ pool = "none"
          /\ AfterAcquireError(t, Exc("fatal", "acquire", attempt[t]))
          /\ Start(t, <<Fail("acquire", "fatal"), Ev("log_error", 0)>>
                      \o AcquireErrorLogs(t))
          /\ UNCHANGED <<pool, borrowed, conn>>
       \/ /\ pool = "open"
          /\ \E c \in ConnIds \ borrowed :
               /\ borrowed' = borrowed \cup {c}
               /\ conn' = Upd(conn, t, c)
               /\ AfterAcquire(t)
               /\ Start(t, <<Ev("acquire", c)>>)
               /\ UNCHANGED <<pool, exc>>
    /\ hist' = Upd(hist, t, [hist[t] EXCEPT !.acq = @ + 1])
    /\ UNCHANGED <<max_connections, args, owns_connection, op, retry_count, retry_delay, attempt, last_error, resp,
                   nstmt>>

GetConnection(t) ==
    /\ pc[t] = "get_conn"
    /\ \/ \* self._pool is None and _init_pool raises
          /\ pool = "none"
          /\ \E k \in Failures :
               /\ AfterAcquireError(t, Exc(k, "init_pool", attempt[t]))
               /\ Start(t, <<Fail("init_pool", k), Ev("log_error", 0),
                             Ev("log_error", 0)>> \o AcquireErrorLogs(t))
          /\ UNCHANGED <<pool, borrowed, conn>>
       \/ \* pool.connection() hands out a free connection
          LET free == IF pool = "none" THEN ConnIds ELSE ConnIds \ borrowed
              init == IF pool = "none" THEN <<Ev("init_pool", 1)>> ELSE <<>>
          IN  \E c \in free :
                /\ pool' = "open"
                /\ borrowed' = (ConnIds \ free) \cup {c}
                /\ conn' = Upd(conn, t, c)
                /\ AfterAcquire(t)
                /\ Start(t, init \o <<Ev("acquire", c)>>)
                /\ UNCHANGED exc
       \/ \* pool.connection() raises
          LET free == IF pool = "none" THEN ConnIds ELSE ConnIds \ borrowed
              init == IF pool = "none" THEN <<Ev("init_pool", 1)>> ELSE <<>>
          IN  /\ free # {}
              /\ \E k \in Failures :
                   /\ AfterAcquireError(t, Exc(k, "acquire", attempt[t]))
                   /\ Start(t, init \o <<Fail("acquire", k),
                                         Ev("log_error", 0)>>
                               \o AcquireErrorLogs(t))
              /\ pool' = "open"
              /\ borrowed' = ConnIds \ free
              /\ UNCHANGED conn
    /\ hist' = Upd(hist, t, [hist[t] EXCEPT !.acq = @ + 1])
    /\ UNCHANGED <<max_connections, args, owns_connection, op, retry_count, retry_delay, attempt, last_error, resp,
                   nstmt>>


(***************************************************************************)
(* conn.cursor(): in _get_cursor(conn) for the retried operations, in      *)
(* transaction() before its try block.                                     *)
(***************************************************************************)
\* (mutant of AfterCursorError: the connection is not closed when
\* conn.cursor() raises)
AfterCursorErrorNoClose(t, e) ==
    CASE op[t] \in RetryOps ->
           /\ Goto(t, "except")
           /\ exc' = Upd(exc, t, e)
      [] OTHER ->
           /\ End(t, Raised(e))
           /\ UNCHANGED exc

\* where an exception raised by conn.cursor() is handled
AfterCursorError(t, e) ==
    CASE op[t] \in WriteOps ->    \* except Exception: conn.rollback()
           /\ Goto(t, "rollback")
           /\ exc' = Upd(exc, t, e)
      [] op[t] \in QueryOps ->    \* finally: conn.close()
           /\ Goto(t, "close")
           /\ exc' = Upd(exc, t, e)
      [] OTHER ->                 \* transaction(): no handler is active yet
           /\ End(t, Raised(e))
           /\ UNCHANGED exc

AfterCursor(t) ==
    CASE op[t] = "transaction" -> Goto(t, "body")
      [] op[t] = "get_cursor" -> Goto(t, "with_body")   \* yield cursor
      [] OTHER -> Goto(t, "stmt")

CreateCursor(t) ==
    /\ pc[t] = "cursor"
    /\ \/ /\ AfterCursor(t)
          /\ Log(t, <<Ev("cursor", 1)>>)
          /\ UNCHANGED exc
       \/ \E k \in Failures :
            /\ AfterCursorError(t, Exc(k, "cursor", attempt[t]))
            /\ Log(t, <<Fail("cursor", k)>>)
    /\ UNCHANGED <<max_connections, args, owns_connection, pool, borrowed, op, retry_count, retry_delay, attempt,
                   conn, last_error, resp, nstmt, hist>>

(***************************************************************************)
(* The statement of a retried operation: cursor.execute /                  *)
(* cursor.executemany, and for query the cursor.fetchall() after it.       *)
(***************************************************************************)
\* (mutant of AfterStatement: the commit is left out)
AfterStatementNoCommit(t) == Goto(t, "cursor_close")

AfterStatement(t) ==
    IF op[t] \in WriteOps THEN Goto(t, "commit") ELSE Goto(t, "cursor_close")

Statement(t) ==
    /\ pc[t] = "stmt"
    /\ \/ \E r \in Responses(op[t]) :
            /\ resp' = Upd(resp, t, r)
            /\ AfterStatement(t)
            /\ Log(t, <<Ev("stmt", 1)>>
                      \o IF op[t] \in QueryOps
                         THEN <<Ev("log_debug", 0)>> ELSE <<>>)
            /\ UNCHANGED exc
       \/ \E k \in Failures :
            \* the with block is left: _get_cursor closes the cursor first
            /\ Goto(t, "cursor_close")
            /\ exc' = Upd(exc, t, Exc(k, "stmt", attempt[t]))
            /\ Log(t, <<Fail("stmt", k)>>)
            /\ UNCHANGED resp
    /\ UNCHANGED <<max_connections, args, owns_connection, pool, borrowed, op, retry_count, retry_delay, attempt,
                   conn, last_error, nstmt, hist>>

(***************************************************************************)
(* conn.commit(): after the statement of a write operation, and at the     *)
(* exit of a transaction body that did not raise.                          *)
(***************************************************************************)
\* (mutant of AfterCommitError: no except clause around the commit)
AfterCommitErrorNoRollback(t) == Goto(t, "cursor_close")

\* where an exception raised by conn.commit() is handled
AfterCommitError(t) ==
    IF op[t] = "transaction"
    THEN Goto(t, "rollback")       \* except Exception of transaction()
    ELSE Goto(t, "cursor_close")   \* the with block is left first

Commit(t) ==
    /\ pc[t] = "commit"
    /\ \/ /\ Goto(t, "cursor_close")
          /\ Log(t, <<Ev("commit", 1), Ev("log_debug", 0)>>)
          /\ UNCHANGED exc
       \/ \E k \in Failures :
            /\ AfterCommitError(t)
            /\ exc' = Upd(exc, t, Exc(k, "commit", attempt[t]))
            /\ Log(t, <<Fail("commit", k)>>)
    /\ UNCHANGED <<max_connections, args, owns_connection, pool, borrowed, op, retry_count, retry_delay, attempt,
                   conn, last_error, resp, nstmt, hist>>

(***************************************************************************)
(* cursor.close(): the finally of _get_cursor (owns_connection is False    *)
(* for every caller in the class), the finally of transaction().           *)
(***************************************************************************)
\* (mutant of AfterCursorClose: the loop of insert has no except clause
\* with the rollback)
AfterCursorCloseInsertNoRollback(t) ==
    CASE op[t] \in (WriteOps \ {"insert"}) /\ exc[t] # NoExc ->
           Goto(t, "rollback")
      [] op[t] = "get_cursor" /\ ~owns_connection[t] ->
           End(t, IF exc[t] = NoExc
                  THEN ReturnValue(op[t], resp[t]) ELSE Raised(exc[t]))
      [] OTHER -> Goto(t, "close")

\* (mutant of AfterCursorClose: _get_cursor closes the connection whoever
\* it belongs to)
AfterCursorCloseAnyConnection(t) ==
    CASE op[t] \in WriteOps /\ exc[t] # NoExc -> Goto(t, "rollback")
      [] OTHER -> Goto(t, "close")

AfterCursorClose(t) ==
    CASE op[t] \in WriteOps /\ exc[t] # NoExc ->
           Goto(t, "rollback")     \* except Exception: conn.rollback()
      [] op[t] = "get_cursor" /\ ~owns_connection[t] ->
           \* the with block of a caller that brought its connection is over
           End(t, IF exc[t] = NoExc
                  THEN ReturnValue(op[t], resp[t]) ELSE Raised(exc[t]))
      [] OTHER -> Goto(t, "close")

CursorClose(t) ==
    /\ pc[t] = "cursor_close"
    /\ AfterCursorClose(t)
    /\ Log(t, <<Ev("cursor_close", 0)>>)
    /\ UNCHANGED <<max_connections, args, owns_connection, pool, borrowed, op, retry_count, retry_delay, attempt,
                   conn, exc, last_error, resp, nstmt, hist>>

(***************************************************************************)
(* conn.rollback() in an except Exception block, followed by a bare raise. *)
(* When rollback itself raises, its exception is the one that propagates.  *)
(***************************************************************************)
\* (mutant of AfterRollback: transaction() forgets cursor.close())
AfterRollbackNoCursorClose(t) == Goto(t, "close")

AfterRollback(t) ==
    IF op[t] = "transaction" THEN Goto(t, "cursor_close") ELSE Goto(t, "close")

\* what follows a rollback that returned: transaction() logs the error
RollbackLogs(t) ==
    IF op[t] = "transaction" THEN <<Ev("log_error", 0)>> ELSE <<>>

Rollback(t) ==
    /\ pc[t] = "rollback"
    /\ AfterRollback(t)
    /\ \/ /\ Log(t, <<Ev("rollback", 1)>> \o RollbackLogs(t))
          /\ UNCHANGED exc
       \/ \E k \in Failures :
            /\ exc' = Upd(exc, t, Exc(k, "rollback", attempt[t]))
            /\ Log(t, <<Fail("rollback", k)>>)
    /\ UNCHANGED <<max_connections, args, owns_connection, pool, borrowed, op, retry_count, retry_delay, attempt,
                   conn, last_error, resp, nstmt, hist>>

(***************************************************************************)
(* conn.close() in a finally block: the connection goes back to the pool.  *)
(* Then the return or the exception of the try block takes effect.         *)
(***************************************************************************)
AfterClose(t) ==
    CASE op[t] \in RetryOps ->
           IF exc[t] = NoExc
           THEN End(t, ReturnValue(op[t], resp[t]))
           ELSE Goto(t, "except")
      [] op[t] = "ping" ->         \* except Exception: return False
           End(t, Returned(IF exc[t] = NoExc THEN 1 ELSE 0, <<>>))
      [] OTHER ->
           End(t, IF exc[t] = NoExc
                  THEN ReturnValue(op[t], resp[t]) ELSE Raised(exc[t]))

CloseLogs(t) ==
    IF op[t] = "ping" /\ exc[t] # NoExc
    THEN <<Ev("log_warning", 0)>> ELSE <<>>

ConnClose(t) ==
    /\ pc[t] = "close"
    /\ borrowed' = borrowed \ {conn[t]}
    /\ AfterClose(t)
    /\ Log(t, <<Ev("close", conn[t])>> \o CloseLogs(t))
    /\ UNCHANGED <<max_connections, args, owns_connection, pool, op, retry_count, retry_delay, attempt, conn, exc,
                   last_error, resp, nstmt, hist>>

(***************************************************************************)
(* The except clauses of the retry loop.                                   *)
(***************************************************************************)
\* (mutant of Delay: a linear backoff)
DelayLinear(rd, a) == rd * (a + 1)

\* delay = retry_delay * (2 ** attempt)
Delay(rd, a) == rd * (2 ^ a)

IsTransient(e) == e.kind = "transient"

RetryHandler(t) ==
    /\ pc[t] = "except"
    /\ IF IsTransient(exc[t])
       THEN /\ last_error' = Upd(last_error, t, exc[t])
            /\ IF attempt[t] < retry_count[t] - 1
               THEN /\ Log(t, <<Ev("log_warning", 0),
                                Ev("sleep",
                                   Delay(retry_delay[t], attempt[t]))>>)
                    /\ hist' = Upd(hist, t,
                         [hist[t] EXCEPT
                            !.sleeps = Append(@, Delay(retry_delay[t],
                                                       attempt[t]))])
               ELSE /\ Log(t, <<Ev("log_error", 0)>>)
                    /\ UNCHANGED hist
            /\ attempt' = Upd(attempt, t, attempt[t] + 1)
            /\ exc' = Upd(exc, t, NoExc)
            /\ LoopHead(t, attempt[t] + 1, retry_count[t], exc[t])
       ELSE /\ Log(t, <<Ev("log_error", 0)>>)
            /\ End(t, Raised(exc[t]))
            /\ UNCHANGED <<attempt, exc, last_error, hist>>
    /\ UNCHANGED <<max_connections, args, owns_connection, pool, borrowed, op, retry_count, retry_delay, conn, resp,
                   nstmt>>

(***************************************************************************)
(* ping(): conn.ping() between the acquisition and the close.              *)
(***************************************************************************)
Ping(t) ==
    /\ pc[t] = "ping"
    /\ Goto(t, "close")
    /\ \/ /\ Log(t, <<Ev("ping", 1), Ev("log_debug", 0)>>)
          /\ UNCHANGED exc
       \/ \E k \in Failures :
            /\ exc' = Upd(exc, t, Exc(k, "ping", 0))
            /\ Log(t, <<Fail("ping", k)>>)
    /\ UNCHANGED <<max_connections, args, owns_connection, pool, borrowed, op, retry_count, retry_delay, attempt,
                   conn, last_error, resp, nstmt, hist>>

(***************************************************************************)
(* The body of a `with client.transaction() as cursor:` block, which is    *)
(* the caller's code: it runs statements on the cursor, may raise, and     *)
(* ends.                                                                   *)
(***************************************************************************)
\* (mutant of BodyStatement: a statement that raised a transient error is
\* run again)
BodyStatementRetried(t) ==
    /\ pc[t] = "body"
    /\ nstmt[t] < MaxBodyStmts
    /\ \/ /\ nstmt' = Upd(nstmt, t, nstmt[t] + 1)
          /\ Goto(t, "body")
          /\ Log(t, <<Ev("stmt", 1)>>)
          /\ UNCHANGED exc
       \/ \E k \in Failures :
            /\ exc' = Upd(exc, t, IF k = "transient" THEN exc[t]
                                  ELSE Exc(k, "stmt", nstmt[t]))
            /\ Goto(t, IF k = "transient" THEN "body" ELSE "rollback")
            /\ Log(t, <<Fail("stmt", k)>>)
            /\ nstmt' = Upd(nstmt, t, IF k = "transient" THEN nstmt[t] + 1
                                      ELSE nstmt[t])
    /\ UNCHANGED <<max_connections, args, owns_connection, pool, borrowed, op, retry_count, retry_delay, attempt,
                   conn, last_error, resp, hist>>

BodyStatement(t) ==
    /\ pc[t] = "body"
    /\ nstmt[t] < MaxBodyStmts
    /\ \/ /\ nstmt' = Upd(nstmt, t, nstmt[t] + 1)
          /\ Goto(t, "body")
          /\ Log(t, <<Ev("stmt", 1)>>)
          /\ UNCHANGED exc
       \/ \E k \in Failures :
            /\ exc' = Upd(exc, t, Exc(k, "stmt", nstmt[t]))
            /\ Goto(t, "rollback")
            /\ Log(t, <<Fail("stmt", k)>>)
            /\ UNCHANGED nstmt
    /\ UNCHANGED <<max_connections, args, owns_connection, pool, borrowed, op, retry_count, retry_delay, attempt,
                   conn, last_error, resp, hist>>

BodyRaise(t) ==
    /\ pc[t] = "body"
    /\ \E k \in Failures :
         /\ exc' = Upd(exc, t, Exc(k, "body", nstmt[t]))
         /\ Log(t, <<Fail("body", k)>>)
    /\ Goto(t, "rollback")
    /\ UNCHANGED <<max_connections, args, owns_connection, pool, borrowed, op, retry_count, retry_delay, attempt,
                   conn, last_error, resp, nstmt, hist>>

BodyExit(t) ==
    /\ pc[t] = "body"
    /\ Goto(t, "commit")
    /\ Log(t, <<Ev("body", 1)>>)
    /\ UNCHANGED <<max_connections, args, owns_connection, pool, borrowed, op, retry_count, retry_delay, attempt,
                   conn, exc, last_error, resp, nstmt, hist>>

(***************************************************************************)
(* `with client._get_cursor(connection) as cursor:` called by itself: with *)
(* connection None it acquires a connection of the pool and owns it, else  *)
(* it works on the connection of its caller, which is not one the pool of  *)
(* this client accounts for.  The body of the with block is the caller's   *)
(* code: it ends or raises.                                                *)
(***************************************************************************)
\* the connection a caller of _get_cursor brings along
CallerConn == MaxConnections + 1

GetCursor(t) ==
    /\ pc[t] = "idle"
    /\ op' = Upd(op, t, "get_cursor")
    /\ trace' = Upd(trace, t, <<>>)
    /\ \/ \* connection is None: conn = self._get_connection()
          /\ owns_connection' = Upd(owns_connection, t, TRUE)
          /\ Goto(t, "get_conn")
          /\ UNCHANGED conn
       \/ \* conn = connection
          /\ owns_connection' = Upd(owns_connection, t, FALSE)
          /\ conn' = Upd(conn, t, CallerConn)
          /\ Goto(t, "cursor")
    /\ UNCHANGED <<max_connections, args, pool, borrowed, retry_count,
                   retry_delay, attempt, exc, last_error, resp, nstmt, hist>>

WithBody(t) ==
    /\ pc[t] = "with_body"
    /\ Goto(t, "cursor_close")
    /\ \/ /\ Log(t, <<Ev("body", 1)>>)
          /\ UNCHANGED exc
       \/ \E k \in Failures :
            /\ exc' = Upd(exc, t, Exc(k, "body", 0))
            /\ Log(t, <<Fail("body", k)>>)
    /\ UNCHANGED <<max_connections, args, owns_connection, pool, borrowed, op,
                   retry_count, retry_delay, attempt, conn, last_error, resp,
                   nstmt, hist>>

(***************************************************************************)
(* The caller has its result and is ready for its next call.               *)
(***************************************************************************)
\* (mutant of Return: the scope that was left is entered again)
ReturnReenter(t) ==
    /\ pc[t] = "done"
    /\ IF op[t] = "transaction" /\ conn[t] # NoConn
       THEN /\ pc' = Upd(pc, t, "body")
            /\ UNCHANGED <<op, retry_count, retry_delay, attempt, conn, exc,
                           last_error, resp, nstmt, args, owns_connection,
                           result, trace, hist>>
       ELSE /\ pc' = Upd(pc, t, "idle")
            /\ op' = Upd(op, t, "none")
            /\ retry_count' = Upd(retry_count, t, 0)
            /\ retry_delay' = Upd(retry_delay, t, 0)
            /\ attempt' = Upd(attempt, t, 0)
            /\ conn' = Upd(conn, t, NoConn)
            /\ exc' = Upd(exc, t, NoExc)
            /\ last_error' = Upd(last_error, t, NoExc)
            /\ resp' = Upd(resp, t, NoResp)
            /\ nstmt' = Upd(nstmt, t, 0)
            /\ args' = Upd(args, t, NoArgs)
            /\ owns_connection' = Upd(owns_connection, t, FALSE)
            /\ result' = Upd(result, t, NoResult)
            /\ trace' = Upd(trace, t, <<>>)
            /\ hist' = Upd(hist, t, NoHist)
    /\ UNCHANGED <<max_connections, pool, borrowed>>

Return(t) ==
    /\ pc[t] = "done"
    /\ pc' = Upd(pc, t, "idle")
    /\ op' = Upd(op, t, "none")
    /\ retry_count' = Upd(retry_count, t, 0)
    /\ retry_delay' = Upd(retry_delay, t, 0)
    /\ attempt' = Upd(attempt, t, 0)
    /\ conn' = Upd(conn, t, NoConn)
    /\ exc' = Upd(exc, t, NoExc)
    /\ last_error' = Upd(last_error, t, NoExc)
    /\ resp' = Upd(resp, t, NoResp)
    /\ nstmt' = Upd(nstmt, t, 0)
    /\ args' = Upd(args, t, NoArgs)
    /\ owns_connection' = Upd(owns_connection, t, FALSE)
    /\ result' = Upd(result, t, NoResult)
    /\ trace' = Upd(trace, t, <<>>)
    /\ hist' = Upd(hist, t, NoHist)
    /\ UNCHANGED <<max_connections, pool, borrowed>>

(***************************************************************************)
(* close(): closes the pool and forgets it, when there is one; the call is *)
(* one step, as it calls nothing that raises or waits (PooledDB.close()    *)
(* swallows the errors of the connections it closes).                      *)
(***************************************************************************)
\* (mutant of Close: no test of self._pool)
CloseNoGuard(t) ==
    /\ pc[t] = "idle"
    /\ op' = Upd(op, t, "close")
    /\ End(t, Returned(None, <<>>))
    /\ pool' = "none"
    /\ borrowed' = {}
    /\ trace' = Upd(trace, t, <<Ev("pool_close", 1), Ev("log_info", 0)>>)
    /\ UNCHANGED <<max_connections, args, owns_connection, retry_count, retry_delay, attempt,
                   conn, exc, last_error, resp, nstmt, hist>>

Close(t) ==
    /\ pc[t] = "idle"
    /\ op' = Upd(op, t, "close")
    /\ End(t, Returned(None, <<>>))
    /\ IF pool = "open"
       THEN /\ pool' = "none"
            /\ borrowed' = {}
            /\ trace' = Upd(trace, t, <<Ev("pool_close", 1),
                                        Ev("log_info", 0)>>)
       ELSE /\ trace' = Upd(trace, t, <<>>)
            /\ UNCHANGED <<pool, borrowed>>
    /\ UNCHANGED <<max_connections, args, owns_connection, retry_count, retry_delay, attempt,
                   conn, exc, last_error, resp, nstmt, hist>>

(***************************************************************************)
(* The specifications.  Spec: one caller, any sequence of calls and        *)
(* close().                                                                *)
(***************************************************************************)
Next ==
    \/ \E t \in Callers : Call(t, Ops, RetryCounts, RetryDelays) /\ UNCHANGED <<xtVars, logVars, glVars>>
    \/ \E t \in Callers : GetConnection(t) /\ UNCHANGED <<xtVars, logVars, glVars>>
    \/ \E t \in Callers : CreateCursor(t) /\ UNCHANGED <<xtVars, logVars, glVars>>
    \/ \E t \in Callers : Statement(t) /\ UNCHANGED <<xtVars, logVars, glVars>>
    \/ \E t \in Callers : Commit(t) /\ UNCHANGED <<xtVars, logVars, glVars>>
    \/ \E t \in Callers : CursorClose(t) /\ UNCHANGED <<xtVars, logVars, glVars>>
    \/ \E t \in Callers : Rollback(t) /\ UNCHANGED <<xtVars, logVars, glVars>>
    \/ \E t \in Callers : ConnClose(t) /\ UNCHANGED <<xtVars, logVars, glVars>>
    \/ \E t \in Callers : RetryHandler(t) /\ UNCHANGED <<xtVars, logVars, glVars>>
    \/ \E t \in Callers : Ping(t) /\ UNCHANGED <<xtVars, logVars, glVars>>
    \/ \E t \in Callers : BodyStatement(t) /\ UNCHANGED <<xtVars, logVars, glVars>>
    \/ \E t \in Callers : BodyRaise(t) /\ UNCHANGED <<xtVars, logVars, glVars>>
    \/ \E t \in Callers : BodyExit(t) /\ UNCHANGED <<xtVars, logVars, glVars>>
    \/ \E t \in Callers : Return(t) /\ UNCHANGED <<xtVars, logVars, glVars>>
    \/ \E t \in Callers : Close(t) /\ UNCHANGED <<xtVars, logVars, glVars>>
    \/ \E t \in Callers : GetCursor(t) /\ UNCHANGED <<xtVars, logVars, glVars>>
    \/ \E t \in Callers : WithBody(t) /\ UNCHANGED <<xtVars, logVars, glVars>>

Spec == Init /\ [][Next]_vars

(***************************************************************************)
(* SpecConc: NumCallers threads share the client; each makes single        *)
(* operations (no transaction scope, whose length is up to its caller) and *)
(* nobody closes the client meanwhile.  Every driver call returns or       *)
(* raises in the end and a sleep ends (weak fairness of the steps that are *)
(* always possible); a caller waiting for a connection gets one when       *)
(* connections keep coming back (strong fairness of the acquisition, the   *)
(* fair scheduling of the waiters).                                        *)
(***************************************************************************)
ConcOps == {"query", "execute", "ping"}
ConcCounts == {1}
ConcDelays == {1}

\* pools that make callers wait, and pools with a connection for everyone
InitConc == InitCallers(NumCallers, 1..MaxConnections)

Progress(t) ==
    \/ CreateCursor(t)
    \/ Statement(t)
    \/ Commit(t)
    \/ CursorClose(t)
    \/ Rollback(t)
    \/ ConnClose(t)
    \/ RetryHandler(t)
    \/ Ping(t)
    \/ Return(t)

NextConc ==
    \/ \E t \in Callers : Call(t, ConcOps, ConcCounts, ConcDelays) /\ UNCHANGED <<xtVars, logVars, glVars>>
    \/ \E t \in Callers : GetConnection(t) /\ UNCHANGED <<xtVars, logVars, glVars>>
    \/ \E t \in Callers : Progress(t) /\ UNCHANGED <<xtVars, logVars, glVars>>

SpecConc ==
    /\ InitConc
    /\ [][NextConc]_vars
    /\ \A t \in 1..NumCallers : WF_vars(Progress(t) /\ UNCHANGED <<xtVars, logVars, glVars>>)
    /\ \A t \in 1..NumCallers :
         SF_vars(GetConnection(t) /\ UNCHANGED <<xtVars, logVars, glVars>>)


(***************************************************************************)
(* Reading a trace.                                                        *)
(***************************************************************************)
Positions(tr, names) == {i \in 1..Len(tr) : tr[i].ev \in names}
Count(tr, name) == Cardinality(Positions(tr, {name}))
\* the connections the trace shows handed out, and how often each was closed
Acquired(tr) ==
    {tr[i].arg : i \in {j \in Positions(tr, {"acquire"}) : tr[j].out = "ok"}}
Closes(tr, c) ==
    Cardinality({i \in Positions(tr, {"close"}) : tr[i].arg = c})
\* every event named in as comes before every event named in bs
Precede(tr, as, bs) ==
    \A i \in Positions(tr, as), j \in Positions(tr, bs) : i < j
\* the events of the given names that raised
Raising(tr, names) == {i \in Positions(tr, names) : tr[i].out # "ok"}

\* the driver calls of the attempt (of the call) are over
AttemptOver(t) == pc[t] \in {"except", "done"}
\* the body of the transaction raised / ended without raising
BodyRaised(t) ==
    op[t] = "transaction" /\ Raising(trace[t], {"body", "stmt"}) # {}
BodyFinished(t) ==
    op[t] = "transaction" /\ Positions(trace[t], {"body"}) # {}
    /\ Raising(trace[t], {"body"}) = {}
\* the exception the body raised
BodyError(t) ==
    LET i == CHOOSE j \in Raising(trace[t], {"body", "stmt"}) : TRUE
    IN  Exc(trace[t][i].out, trace[t][i].ev, nstmt[t])

(***************************************************************************)
(* The claims.                                                             *)
(***************************************************************************)
\* C1 (as claimed): whenever an attempt or a call of any operation is over,
\* every connection it obtained from the pool has been closed exactly once,
\* and when no call is in progress no connection is borrowed.
C1_ConnectionRelease ==
    /\ \A t \in Callers :
         AttemptOver(t) =>
           \A c \in Acquired(trace[t]) : Closes(trace[t], c) = 1
    /\ (\A t \in Callers : pc[t] \in {"idle", "done"}) => borrowed = {}

\* C2: a retried operation called with retry_count = N >= 1 never makes more
\* than N acquisitions; when it raises a transient error (every attempt
\* failed with one) it has made exactly N; and when the N-th attempt has
\* failed with a transient error the call raises.
C2_RetryExhaustion ==
    \A t \in Callers :
      (op[t] \in RetryOps /\ retry_count[t] >= 1) =>
        /\ hist[t].acq <= retry_count[t]
        /\ (pc[t] = "done" /\ result[t].status = "raised"
            /\ IsTransient(result[t].exc)) => hist[t].acq = retry_count[t]
        /\ (pc[t] = "done" /\ last_error[t] # NoExc
            /\ last_error[t].n = retry_count[t] - 1) =>
             result[t].status = "raised"

C2_Witness ==
    \E t \in Callers :
      /\ pc[t] = "done" /\ op[t] = "execute" /\ retry_count[t] = 3
      /\ result[t].status = "raised" /\ IsTransient(result[t].exc)
      /\ hist[t].acq = 3

\* C3: when a retried operation returns after k failed attempts, it returns
\* what the statement of attempt k+1 answered, it has slept exactly k times,
\* the i-th time (i = 0..k-1) for retry_delay * 2^i, and each sleep came
\* after the close of the failed attempt's connection and is the last event
\* before the next acquisition.
C3_RetrySuccessBackoff ==
    \A t \in Callers :
      op[t] \in RetryOps =>
        /\ (pc[t] = "done" /\ result[t].status = "returned"
            /\ hist[t].acq >= 1) =>
             /\ attempt[t] = hist[t].acq - 1
             /\ hist[t].sleeps =
                  [i \in 1..(hist[t].acq - 1) |->
                     retry_delay[t] * (2 ^ (i - 1))]
             /\ Count(trace[t], "sleep") = 0
             /\ Raising(trace[t], {"acquire", "init_pool", "cursor", "stmt",
                                   "commit", "rollback"}) = {}
             /\ result[t] = ReturnValue(op[t], resp[t])
        /\ (pc[t] = "get_conn" /\ hist[t].acq >= 1) =>
             LET tr == trace[t] IN
             /\ Len(hist[t].sleeps) = hist[t].acq
             /\ tr # <<>>
             /\ tr[Len(tr)] = Ev("sleep", hist[t].sleeps[hist[t].acq])
             /\ Count(tr, "sleep") = 1
             /\ \A c \in Acquired(tr) : Closes(tr, c) = 1
             /\ Precede(tr, {"close"}, {"sleep"})

C3_Witness ==
    \E t \in Callers :
      /\ pc[t] = "done" /\ op[t] = "insert" /\ result[t].status = "returned"
      /\ retry_delay[t] = 3 /\ hist[t].sleeps = <<3, 6, 12>>

\* C4 (as claimed): when the statement of an attempt of a retried operation
\* fails with a non-transient error, the call raises that error at once: no
\* sleep follows and no further attempt is started.
C4_NonTransientNotRetried ==
    \A t \in Callers :
      (/\ op[t] \in RetryOps
       /\ pc[t] \in {"get_conn", "done"}
       /\ \E i \in Raising(trace[t], {"stmt"}) : trace[t][i].out = "fatal") =>
        /\ pc[t] = "done"
        /\ result[t] = Raised(Exc("fatal", "stmt", attempt[t]))
        /\ Count(trace[t], "sleep") = 0

\* C5: when the body of a transaction() scope has raised, after any number
\* of successful statements, the scope has issued exactly one rollback and
\* no commit, closed the cursor once and the connection once, the rollback
\* before the close of the connection, and the call raises.
C5_TransactionFailure ==
    \A t \in Callers :
      (pc[t] = "done" /\ BodyRaised(t)) =>
        /\ Count(trace[t], "rollback") = 1
        /\ Count(trace[t], "commit") = 0
        /\ Count(trace[t], "cursor_close") = 1
        /\ Count(trace[t], "close") = 1
        /\ \A c \in Acquired(trace[t]) : Closes(trace[t], c) = 1
        /\ Precede(trace[t], {"rollback"}, {"close"})
        /\ result[t].status = "raised"

C5_Witness ==
    \E t \in Callers :
      /\ pc[t] = "done" /\ BodyRaised(t) /\ nstmt[t] = MaxBodyStmts
      /\ Raising(trace[t], {"body"}) # {}
      /\ Count(trace[t], "rollback") = 1

\* C6 (as claimed): the exception that leaves a transaction() scope whose
\* body raised is the exception the body raised.
C6_OriginalErrorPropagates ==
    \A t \in Callers :
      (pc[t] = "done" /\ BodyRaised(t)) => result[t] = Raised(BodyError(t))

\* C7 (as claimed): when the body of a transaction() scope has ended without
\* raising, exactly one commit and no rollback were issued, the commit after
\* the last statement and before the close of the connection, and the
\* cursor and the connection were closed once each.
C7_TransactionSuccessAsClaimed ==
    \A t \in Callers :
      (pc[t] = "done" /\ BodyFinished(t)) =>
        /\ Count(trace[t], "commit") = 1
        /\ Count(trace[t], "rollback") = 0
        /\ Precede(trace[t], {"stmt"}, {"commit"})
        /\ Precede(trace[t], {"commit"}, {"close"})
        /\ Count(trace[t], "cursor_close") = 1
        /\ Count(trace[t], "close") = 1

\* C7 (amended): when the body of a transaction() scope has ended without
\* raising, exactly one commit was issued, after the last statement and
\* before the close of the connection; no rollback was issued when the
\* commit returned, and exactly one, after the commit and before the close,
\* when the commit raised; the cursor and the connection were closed once
\* each.
C7_TransactionSuccess ==
    \A t \in Callers :
      (pc[t] = "done" /\ BodyFinished(t)) =>
        /\ Count(trace[t], "commit") = 1
        /\ Count(trace[t], "rollback") =
             (IF Raising(trace[t], {"commit"}) = {} THEN 0 ELSE 1)
        /\ Precede(trace[t], {"stmt"}, {"commit"})
        /\ Precede(trace[t], {"commit"}, {"rollback", "close"})
        /\ Precede(trace[t], {"rollback"}, {"close"})
        /\ Count(trace[t], "cursor_close") = 1
        /\ Count(trace[t], "close") = 1
        /\ \A c \in Acquired(trace[t]) : Closes(trace[t], c) = 1

C7_Witness ==
    \E t \in Callers :
      /\ pc[t] = "done" /\ BodyFinished(t) /\ nstmt[t] = MaxBodyStmts
      /\ Raising(trace[t], {"commit"}) # {}
      /\ Count(trace[t], "rollback") = 1

\* a commit or a rollback was issued after the statement of the attempt and
\* before the close of its connection
EndsTransaction(tr) ==
    \E i \in Positions(tr, {"commit", "rollback"}) :
      /\ \A j \in Positions(tr, {"stmt"}) : j < i
      /\ \A j \in Positions(tr, {"close"}) : i < j

\* C9 (as claimed): every attempt of a retried operation that ran its
\* statement issued a commit or a rollback after it and before the close of
\* the connection.
C9_NoOpenTransactionAsClaimed ==
    \A t \in Callers :
      (op[t] \in RetryOps /\ AttemptOver(t)
       /\ Positions(trace[t], {"stmt"}) # {}) => EndsTransaction(trace[t])

\* C9 (amended): every attempt of execute, execute_many and insert (and of
\* update and delete, which call execute) that ran its statement issued a
\* commit or a rollback after it and before the close of the connection;
\* query and query_one issue neither a commit nor a rollback.
C9_NoOpenTransaction ==
    \A t \in Callers :
      AttemptOver(t) =>
        /\ (op[t] \in WriteOps /\ Positions(trace[t], {"stmt"}) # {}) =>
             EndsTransaction(trace[t])
        /\ op[t] \in QueryOps =>
             Positions(trace[t], {"commit", "rollback"}) = {}

C9_Witness ==
    \E t \in Callers :
      /\ pc[t] = "done" /\ op[t] = "query" /\ result[t].status = "returned"
      /\ Count(trace[t], "stmt") = 1 /\ Count(trace[t], "close") = 1
      /\ Positions(trace[t], {"commit", "rollback"}) = {}

Holding(t) ==
    pc[t] \in {"cursor", "stmt", "commit", "cursor_close", "rollback",
               "close", "ping", "body"}

NoSharedConnection ==
    \A t \in Callers :
      Holding(t) =>
        /\ conn[t] \in borrowed
        /\ \A u \in Callers \ {t} : Holding(u) => conn[u] # conn[t]

InAttempt(t) ==
    /\ op[t] \in RetryOps
    /\ pc[t] \in {"cursor", "stmt", "commit", "cursor_close", "rollback",
                  "close"}

LastRaised(tr, n) ==
    LET all == {i \in 1..Len(tr) : tr[i].out # "ok"}
        i == CHOOSE j \in all : \A k \in all : k <= j
    IN  Exc(tr[i].out, tr[i].ev, n)

\* C12: when a call of a retried operation with retry_count >= 1 raises a
\* transient error (its attempts are used up), the error raised is the one
\* the last driver call of the final attempt raised: not one of an earlier
\* attempt and not the generic RuntimeError.
C12_LastErrorRaised ==
    \A t \in Callers :
      (/\ op[t] \in RetryOps /\ retry_count[t] >= 1 /\ pc[t] = "done"
       /\ result[t].status = "raised" /\ IsTransient(result[t].exc)) =>
        /\ result[t].exc = LastRaised(trace[t], retry_count[t] - 1)
        /\ result[t].exc = last_error[t]
        /\ result[t].exc # RuntimeError

C12_Witness ==
    \E t \in Callers :
      /\ op[t] = "query" /\ retry_count[t] = 3 /\ pc[t] = "done"
      /\ result[t] = Raised(Exc("transient", "cursor", 2))
      /\ hist[t].sleeps # <<>>

\* the names of the driver calls of a trace, in order, without the log
\* records
Calls(tr) ==
    LET keep(e) == e.ev \notin {"log_debug", "log_warning", "log_error",
                                "sleep"}
        calls == SelectSeq(tr, keep)
    IN  [i \in 1..Len(calls) |-> calls[i].ev]

\* C13 (as claimed): an attempt of execute that succeeds has called
\* acquire, cursor, statement, commit, close in this order, once each, and
\* returns the statement's affected-row count; when its statement or its
\* commit raised, exactly one rollback was issued before the close, no
\* commit after the rollback, and the error that leaves the attempt is the
\* one the statement or the commit raised.
C13_ExecuteProtocol ==
    \A t \in Callers :
      (op[t] = "execute" /\ AttemptOver(t) /\ hist[t].acq >= 1) =>
        LET tr == trace[t] IN
        /\ Raising(tr, {"init_pool", "acquire", "cursor", "stmt", "commit",
                        "rollback"}) = {} =>
             /\ Calls(tr) \in {<<"acquire", "cursor", "stmt", "commit",
                                 "cursor_close", "close">>,
                               <<"init_pool", "acquire", "cursor", "stmt",
                                 "commit", "cursor_close", "close">>}
             /\ pc[t] = "done"
             /\ result[t] = Returned(resp[t].rowcount, <<>>)
        /\ Raising(tr, {"stmt", "commit"}) # {} =>
             /\ Count(tr, "rollback") = 1
             /\ Count(tr, "close") = 1
             /\ Precede(tr, {"rollback"}, {"close"})
             /\ Precede(tr, {"commit"}, {"rollback"})
             /\ pc[t] = "except" =>
                  \E i \in Raising(tr, {"stmt", "commit"}) :
                    exc[t] = Exc(tr[i].out, tr[i].ev, attempt[t])

\* the call of caller t has an argument its write helper refuses
InvalidArgs(t) ==
    \/ op[t] = "insert" /\ args[t].data_empty
    \/ op[t] = "update" /\ (args[t].data_empty \/ args[t].where_empty)
    \/ op[t] = "delete" /\ args[t].where_empty

\* C14: insert with empty data, update with empty data or empty where and
\* delete with empty where raise ValueError with no acquisition, no driver
\* call, no sleep and no retry, and leave the pool as it was; with non-empty
\* arguments they do not raise ValueError and go on to the first
\* acquisition of the executor.
C14_ValidationBeforeIO ==
    /\ [](\A t \in Callers :
            (pc[t] # "idle" /\ op[t] \in {"insert", "update", "delete"}) =>
              IF InvalidArgs(t)
              THEN /\ pc[t] = "done"
                   /\ result[t] = Raised(ValueError)
                   /\ hist[t] = NoHist
                   /\ trace[t] = <<>>
              ELSE /\ result[t] # Raised(ValueError)
                   /\ (pc[t] = "done" /\ retry_count[t] >= 1) =>
                        hist[t].acq >= 1)
    /\ [][\A t \in Callers :
            (pc[t] = "idle" /\ op'[t] \in {"insert", "update", "delete"}) =>
              IF result'[t] = Raised(ValueError)
              THEN pool' = pool /\ borrowed' = borrowed
              ELSE retry_count'[t] >= 1 => pc'[t] = "get_conn"]_vars

C14_Witness ==
    \E t \in Callers :
      /\ pc[t] = "done" /\ op[t] = "delete" /\ args[t].where_empty
      /\ result[t] = Raised(ValueError) /\ hist[t].acq = 0

C16_EmptyBatchNoOp ==
    /\ [](\A t \in Callers :
            (pc[t] # "idle" /\ op[t] = "execute_many"
             /\ args[t].data_empty) =>
              /\ pc[t] = "done"
              /\ result[t] = Returned(0, <<>>)
              /\ hist[t] = NoHist
              /\ trace[t] = <<>>)
    /\ [][\A t \in Callers :
            (pc[t] = "idle" /\ op'[t] = "execute_many"
             /\ args'[t].data_empty) =>
              pool' = pool /\ borrowed' = borrowed]_vars

\* an empty batch on a closed client, with a retry_count of -1
C16_Witness ==
    \E t \in Callers :
      /\ pc[t] = "done" /\ op[t] = "execute_many" /\ args[t].data_empty
      /\ retry_count[t] = -1 /\ pool = "none"
      /\ result[t] = Returned(0, <<>>)

\* the driver calls an attempt of query can make, in order (a pool that was
\* closed is created first)
QueryAttemptCalls ==
    LET after == {<<"acquire">>,
                  <<"acquire", "cursor", "close">>,
                  <<"acquire", "cursor", "stmt", "cursor_close", "close">>}
    IN  after \cup {<<"init_pool">> \o c : c \in after} \cup {<<"init_pool">>}

\* C17: a query_one that returns gives None when the rows its query fetched
\* are empty and the first of them otherwise; an empty result is never an
\* error; and its attempts make the driver calls, acquisitions and sleeps
\* of query.
C17_QueryOneNarrowsQuery ==
    \A t \in Callers :
      /\ (op[t] = "query_one" /\ pc[t] = "done") =>
           /\ result[t].status = "returned" =>
                /\ result[t].value =
                     (IF Len(resp[t].rows) = 0 THEN None
                      ELSE Head(resp[t].rows))
                /\ result[t].rows = <<>>
           /\ (hist[t].acq >= 1 /\ Raising(trace[t], {"init_pool",
                  "acquire", "cursor", "stmt"}) = {}) =>
                result[t].status = "returned"
      /\ (op[t] = "query" /\ pc[t] = "done"
          /\ result[t].status = "returned") =>
           result[t] = Returned(None, resp[t].rows)
      /\ (op[t] \in QueryOps /\ AttemptOver(t) /\ hist[t].acq >= 1) =>
           /\ Calls(trace[t]) \in QueryAttemptCalls
           /\ hist[t].acq = attempt[t] + (IF pc[t] = "except" THEN 1 ELSE 0)
                             + (IF pc[t] = "done" /\ result[t].status =
                                   "returned" THEN 1 ELSE 0)
                             + (IF pc[t] = "done" /\ result[t].status =
                                   "raised"
                                   /\ ~IsTransient(result[t].exc)
                                THEN 1 ELSE 0)
           /\ Len(hist[t].sleeps) <= attempt[t]

\* query_one returns the first of two rows, on its second attempt
C17_Witness ==
    \E t \in Callers :
      /\ op[t] = "query_one" /\ pc[t] = "done" /\ hist[t].acq = 2
      /\ Len(resp[t].rows) = 2
      /\ result[t] = Returned(Head(resp[t].rows), <<>>)

\* C18: a transaction() scope makes one acquisition and holds that
\* connection until its exit; after a statement of the body raised, a
\* transient error included, no statement is run again, no second
\* acquisition is made and nothing sleeps: the scope rolls back and raises.
C18_NoRetryInTransaction ==
    \A t \in Callers :
      op[t] = "transaction" =>
        LET tr == trace[t] IN
        /\ hist[t].acq <= 1
        /\ hist[t].sleeps = <<>>
        /\ Count(tr, "sleep") = 0
        /\ Count(tr, "acquire") <= 1
        /\ attempt[t] = 0
        /\ pc[t] \in {"body", "commit", "rollback", "cursor_close",
                      "close"} =>
             /\ Acquired(tr) = {conn[t]}
             /\ conn[t] \in borrowed
             /\ Closes(tr, conn[t]) = 0
        /\ \A i \in Raising(tr, {"stmt"}) :
             /\ \A j \in Positions(tr, {"stmt", "acquire", "commit"}) :
                  j <= i
             /\ pc[t] = "done" => result[t].status = "raised"

\* a statement of the body raised a transient error and the scope raised
C18_Witness ==
    \E t \in Callers :
      /\ op[t] = "transaction" /\ pc[t] = "done" /\ nstmt[t] = 1
      /\ \E i \in Raising(trace[t], {"stmt"}) :
           trace[t][i].out = "transient"
      /\ result[t] = Raised(Exc("transient", "stmt", 1))
      /\ hist[t].acq = 1

\* the driver calls of an attempt of execute, given the first call of the
\* attempt that raised ("none": no call raised)
ExecuteAttemptCalls(failed) ==
    CASE failed = "none" ->
           <<"acquire", "cursor", "stmt", "commit", "cursor_close", "close">>
      [] failed = "init_pool" -> <<>>
      [] failed = "acquire" -> <<"acquire">>
      [] failed = "cursor" -> <<"acquire", "cursor", "rollback", "close">>
      [] failed = "stmt" ->
           <<"acquire", "cursor", "stmt", "cursor_close", "rollback",
             "close">>
      [] OTHER ->
           <<"acquire", "cursor", "stmt", "commit", "cursor_close",
             "rollback", "close">>

\* the first driver call of the trace that raised
FirstFailure(tr) ==
    LET all == {i \in 1..Len(tr) : tr[i].out # "ok"}
    IN  IF all = {} THEN "none"
        ELSE tr[CHOOSE j \in all : \A k \in all : j <= k].ev

\* what an attempt and a call of execute look like, whatever the operation
\* is called
ExecutorBehaviour(t) ==
    LET tr == trace[t]
        init == IF Positions(tr, {"init_pool"}) # {}
                THEN <<"init_pool">> ELSE <<>>
    IN
    /\ (AttemptOver(t) /\ hist[t].acq >= 1) =>
         /\ Calls(tr) = init \o ExecuteAttemptCalls(FirstFailure(tr))
         /\ pc[t] = "except" => exc[t] = LastRaised(tr, attempt[t])
    /\ pc[t] = "done" =>
         /\ result[t].status = "returned" <=>
              (hist[t].acq >= 1 /\ FirstFailure(trace[t]) = "none")
         /\ (result[t].status = "raised" /\ hist[t].acq >= 1) =>
              result[t].exc = LastRaised(tr, hist[t].acq - 1)
         /\ (result[t].status = "raised" /\ hist[t].acq = 0) =>
              result[t].exc = RuntimeError /\ retry_count[t] <= 0
         /\ hist[t].acq <= retry_count[t] \/ hist[t].acq = 0
    /\ hist[t].sleeps =
         [i \in 1..Len(hist[t].sleeps) |-> retry_delay[t] * (2 ^ (i - 1))]
    /\ Len(hist[t].sleeps) =
         (IF pc[t] = "done" /\ result[t].status = "raised"
             /\ IsTransient(result[t].exc)
          THEN attempt[t] - 1 ELSE attempt[t])

\* C19: insert, update and delete (with arguments they accept) make, for
\* every pattern of outcomes of the driver calls and every retry_count and
\* retry_delay, the driver calls, the sleeps and the return or raise that
\* execute makes for that pattern.
C19_HelpersAsExecute ==
    \A t \in Callers :
      (op[t] \in {"execute", "insert", "update", "delete"}
       /\ ~InvalidArgs(t)) => ExecutorBehaviour(t)

\* an insert that rolled back after its cursor could not be created, and
\* raises after its last attempt
C19_Witness ==
    \E t \in Callers :
      /\ op[t] = "insert" /\ pc[t] = "done" /\ retry_count[t] = 2
      /\ Len(hist[t].sleeps) = 1
      /\ Calls(trace[t]) = <<"acquire", "cursor", "rollback", "close">>
      /\ result[t] = Raised(Exc("transient", "cursor", 1))

\* the state of the transaction() scope of caller t: Idle until its cursor
\* is there, Open until its connection is given back, Closed afterwards
ScopeState(t) ==
    CASE pc[t] \in {"body", "commit", "rollback", "cursor_close", "close"} ->
           "Open"
      [] pc[t] = "done" /\ Positions(trace[t], {"close"}) # {} -> "Closed"
      [] OTHER -> "Idle"

\* C20 (as claimed): a scope that is Closed has issued exactly one of commit
\* and rollback, and one close.
C20_ExactlyOneOfCommitRollback ==
    \A t \in Callers :
      (op[t] = "transaction" /\ ScopeState(t) = "Closed") =>
        /\ Count(trace[t], "commit") + Count(trace[t], "rollback") = 1
        /\ Count(trace[t], "close") = 1

\* C20 (amended): a scope moves only Idle -> Open (its connection borrowed)
\* -> Closed; it is Closed after a commit, or a rollback, or a commit that
\* raised followed by a rollback, and one close of its connection; a Closed
\* scope issues nothing more and is never Open again (the caller can only
\* drop it).
C20_ScopeStateMachine ==
    /\ [](\A t \in Callers :
            (op[t] = "transaction" /\ ScopeState(t) = "Closed") =>
              LET tr == trace[t] IN
              /\ Count(tr, "commit") <= 1
              /\ Count(tr, "rollback") <= 1
              /\ Count(tr, "commit") + Count(tr, "rollback") >= 1
              /\ (Count(tr, "commit") = 1 /\ Count(tr, "rollback") = 1) =>
                   /\ Raising(tr, {"commit"}) # {}
                   /\ Precede(tr, {"commit"}, {"rollback"})
              /\ Count(tr, "close") = 1
              /\ Precede(tr, {"commit", "rollback"}, {"close"})
              /\ conn[t] \notin borrowed)
    /\ [][\A t \in Callers :
            op[t] = "transaction" =>
              /\ (ScopeState(t) = "Idle" /\ pc'[t] # "idle") =>
                   /\ ScopeState(t)' \in {"Idle", "Open"}
                   /\ ScopeState(t)' = "Open" => conn'[t] \in borrowed'
              /\ ScopeState(t) = "Open" =>
                   ScopeState(t)' \in {"Open", "Closed"}
              /\ ScopeState(t) = "Closed" =>
                   \/ UNCHANGED <<pc[t], trace[t], conn[t], result[t]>>
                   \/ pc'[t] = "idle" /\ op'[t] = "none"
                      /\ trace'[t] = <<>>]_vars

\* a scope is Closed after its commit raised and it rolled back
C20_Witness ==
    \E t \in Callers :
      /\ op[t] = "transaction" /\ ScopeState(t) = "Closed"
      /\ Count(trace[t], "commit") = 1 /\ Count(trace[t], "rollback") = 1
      /\ Raising(trace[t], {"rollback"}) = {}
      /\ result[t].status = "raised"

\* C21: a call of ping() that is over has returned, never raised: True when
\* it acquired a connection and conn.ping() returned, False when the
\* acquisition or conn.ping() raised; a connection it acquired was closed
\* exactly once, is not borrowed any more, and nothing else was closed.
C21_PingNeverRaises ==
    \A t \in Callers :
      (op[t] = "ping" /\ pc[t] = "done") =>
        LET tr == trace[t]
            pinged == {i \in Positions(tr, {"ping"}) : tr[i].out = "ok"}
        IN
        /\ result[t].status = "returned"
        /\ result[t].value \in {0, 1}
        /\ result[t].value = 1 <=> (Acquired(tr) # {} /\ pinged # {})
        /\ Raising(tr, {"init_pool", "acquire", "ping"}) # {} =>
             result[t].value = 0
        /\ \A c \in Acquired(tr) : Closes(tr, c) = 1 /\ c \notin borrowed
        /\ Count(tr, "close") = Cardinality(Acquired(tr))
        /\ Precede(tr, {"ping"}, {"close"})

\* a ping() that returned False after conn.ping() raised and the connection
\* was closed
C21_Witness ==
    \E t \in Callers :
      /\ op[t] = "ping" /\ pc[t] = "done"
      /\ Raising(trace[t], {"ping"}) # {}
      /\ result[t] = Returned(0, <<>>)
      /\ Count(trace[t], "close") = 1

\* C22: a close() on a client with a pool calls the pool's close() once and
\* leaves the client without a pool; a close() on a client without a pool
\* (no acquisition since the last close()) closes nothing, changes nothing
\* of the client and returns; no close() raises.
C22_CloseIdempotent ==
    /\ [](\A t \in Callers :
            op[t] = "close" =>
              /\ pc[t] = "done"
              /\ result[t] = Returned(None, <<>>)
              /\ pool = "none"
              /\ Count(trace[t], "pool_close") <= 1)
    /\ [][\A t \in Callers :
            (pc[t] = "idle" /\ op'[t] = "close") =>
              /\ pool = "open" =>
                   pool' = "none" /\ Count(trace'[t], "pool_close") = 1
              /\ pool = "none" =>
                   /\ trace'[t] = <<>>
                   /\ UNCHANGED <<pool, borrowed, max_connections>>]_vars

\* a close() that found no pool: the close() before it took it away
C22_Witness ==
    \E t \in Callers :
      /\ op[t] = "close" /\ pc[t] = "done" /\ pool = "none"
      /\ trace[t] = <<>>

\* the cursor of the scope was created
CursorCreated(tr) == {i \in Positions(tr, {"cursor"}) : tr[i].out = "ok"} # {}

\* C30 (as claimed): when a `with _get_cursor(connection)` scope is over,
\* the cursor it created was closed exactly once, whether the body ended or
\* raised; a connection it acquired itself (connection None) was closed
\* exactly once and is free again, also when conn.cursor() raised; a
\* connection of the caller was never closed.
C30_CursorScopeOwnership ==
    \A t \in Callers :
      (op[t] = "get_cursor" /\ pc[t] = "done") =>
        LET tr == trace[t] IN
        /\ Count(tr, "cursor_close") = (IF CursorCreated(tr) THEN 1 ELSE 0)
        /\ Precede(tr, {"body"}, {"cursor_close"})
        /\ owns_connection[t] =>
             /\ \A c \in Acquired(tr) : Closes(tr, c) = 1 /\ c \notin borrowed
             /\ Count(tr, "close") = Cardinality(Acquired(tr))
             /\ Precede(tr, {"cursor_close"}, {"close"})
        /\ ~owns_connection[t] =>
             Count(tr, "close") = 0 /\ Acquired(tr) = {}

\* the part of C30 that does not depend on conn.cursor() raising
C30_ScopeWithCursor ==
    \A t \in Callers :
      (op[t] = "get_cursor" /\ pc[t] = "done"
       /\ Raising(trace[t], {"cursor"}) = {}) =>
        LET tr == trace[t] IN
        /\ Count(tr, "cursor_close") = (IF CursorCreated(tr) THEN 1 ELSE 0)
        /\ Precede(tr, {"body"}, {"cursor_close"})
        /\ owns_connection[t] =>
             /\ \A c \in Acquired(tr) : Closes(tr, c) = 1 /\ c \notin borrowed
             /\ Count(tr, "close") = Cardinality(Acquired(tr))
             /\ Precede(tr, {"cursor_close"}, {"close"})
        /\ ~owns_connection[t] =>
             Count(tr, "close") = 0 /\ Acquired(tr) = {}

(***************************************************************************)
(* XiaTuiNotifier: the calls of the threads.  Thread Main constructs and   *)
(* resets, one call at a time; every thread that holds a notifier object   *)
(* sends.  send() is followed statement by statement up to the put, since  *)
(* other threads and the workers run in between.                           *)
(***************************************************************************)
classVars == <<instance, initialized, created>>
objVars == <<token, base_url, message_queue, unfinished_tasks, worker_thread,
             last_send_time>>
workerVars == <<wpc, wself, message, last_message_time, current_time,
                sleep_time>>
postVars == <<posted, enqueued, since_post>>

Min(a, b) == IF a < b THEN a ELSE b

\* the call of thread t ends
XtEnd(t, call, arg, status, value) ==
    /\ cpc' = Upd(cpc, t, "done")
    /\ outcome' = Upd(outcome, t, Outcome(call, arg, status, value))

\* as Construct, with an __init__ that does not test _initialized: every
\* construction with a token sets the attributes again
ConstructReinit(t, tok) ==
    /\ t = Main
    /\ cpc[t] = "idle"
    /\ instance # None \/ created + 1 \in Instances
    /\ LET obj == IF instance = None THEN created + 1 ELSE instance IN
       /\ instance' = obj
       /\ created' = (IF instance = None THEN created + 1 ELSE created)
       /\ IF tok = None
          THEN IF ~initialized
               THEN /\ XtEnd(t, "construct", tok, "raised", "ValueError")
                    /\ UNCHANGED <<initialized, objVars, ref>>
               ELSE /\ ref' = Upd(ref, t, obj)
                    /\ XtEnd(t, "construct", tok, "returned", obj)
                    /\ UNCHANGED <<initialized, objVars>>
          ELSE /\ token' = Upd(token, obj, tok)
               /\ base_url' = Upd(base_url, obj, BaseUrl(tok))
               /\ message_queue' = Upd(message_queue, obj, <<>>)
               /\ unfinished_tasks' = Upd(unfinished_tasks, obj, 0)
               /\ worker_thread' = Upd(worker_thread, obj, None)
               /\ last_send_time' = Upd(last_send_time, obj, min_interval)
               /\ initialized' = TRUE
               /\ ref' = Upd(ref, t, obj)
               /\ XtEnd(t, "construct", tok, "returned", obj)
    /\ UNCHANGED <<future, workerVars, join_wait, postVars, cancelled>>

\* XiaTuiNotifier(token): __new__ makes the object when there is none,
\* __init__ gives it its attributes when the class is not initialised
Construct(t, tok) ==
    /\ t = Main
    /\ cpc[t] = "idle"
    /\ instance # None \/ created + 1 \in Instances
    /\ LET obj == IF instance = None THEN created + 1 ELSE instance IN
       /\ instance' = obj
       /\ created' = (IF instance = None THEN created + 1 ELSE created)
       /\ IF ~initialized
          THEN IF tok = None
               THEN /\ XtEnd(t, "construct", tok, "raised", "ValueError")
                    /\ UNCHANGED <<initialized, objVars, ref>>
               ELSE /\ token' = Upd(token, obj, tok)
                    /\ base_url' = Upd(base_url, obj, BaseUrl(tok))
                    /\ message_queue' = Upd(message_queue, obj, <<>>)
                    /\ unfinished_tasks' = Upd(unfinished_tasks, obj, 0)
                    /\ worker_thread' = Upd(worker_thread, obj, None)
                    /\ last_send_time' =
                         Upd(last_send_time, obj, min_interval)
                    /\ initialized' = TRUE
                    /\ ref' = Upd(ref, t, obj)
                    /\ XtEnd(t, "construct", tok, "returned", obj)
          ELSE /\ ref' = Upd(ref, t, obj)
               /\ XtEnd(t, "construct", tok, "returned", obj)
               /\ UNCHANGED <<initialized, objVars>>
    /\ UNCHANGED <<future, workerVars, join_wait, postVars, cancelled>>

\* get_instance(): return cls._instance
GetInstance(t) ==
    /\ cpc[t] = "idle"
    /\ ref' = Upd(ref, t, instance)
    /\ XtEnd(t, "get_instance", None, "returned", instance)
    /\ UNCHANGED <<classVars, objVars, future, workerVars, join_wait,
                   postVars, cancelled>>

\* is_alive() of a thread: started and not yet ended
Alive(w) ==
    w # None /\ wpc[w] \in {"get", "sleep", "post", "posting", "exiting"}
\* self._worker_thread is None or not self._worker_thread.is_alive()
NeedsWorker(i) == ~Alive(worker_thread[i])

\* the thread objects free to stand for a new Thread of object i
FreeWorkers(i) ==
    {w \in Workers :
       /\ wpc[w] \in {"unborn", "created", "dead"}
       /\ \A j \in Instances : (j # i \/ wpc[w] = "created") =>
            worker_thread[j] # w}

\* a new Thread for object i is made and assigned (lines 136-140)
NewThread(i) ==
    /\ FreeWorkers(i) # {}
    /\ LET w == CHOOSE x \in FreeWorkers(i) :
                  \A y \in FreeWorkers(i) : x <= y
       IN  /\ worker_thread' = Upd(worker_thread, i, w)
           /\ wpc' = Upd(wpc, w, "created")
           /\ wself' = Upd(wself, w, i)
           /\ message' = Upd(message, w, None)
           /\ last_message_time' = Upd(last_message_time, w, None)
           /\ current_time' = Upd(current_time, w, 0)
           /\ sleep_time' = Upd(sleep_time, w, 0)

\* send(), lines 88-93, and _start_worker(), lines 135-140: the class must
\* be initialised; when the worker thread is missing or not alive a new
\* Thread is made and assigned.  (The tests of lines 92 and 135 read the
\* same attribute and nothing is written between them: they are one test,
\* made at the time of the second.)
Send(t) ==
    /\ cpc[t] = "idle"
    /\ ref[t] # None
    /\ IF ~initialized
       THEN /\ XtEnd(t, "send", ref[t], "raised", "RuntimeError")
            /\ UNCHANGED <<worker_thread, workerVars>>
       ELSE /\ outcome' = Upd(outcome, t,
                              Outcome("send", ref[t], "none", None))
            /\ IF NeedsWorker(ref[t])
               THEN /\ NewThread(ref[t])
                    /\ cpc' = Upd(cpc, t, "start_thread")
               ELSE /\ cpc' = Upd(cpc, t, "put")
                    /\ UNCHANGED <<worker_thread, workerVars>>
    /\ UNCHANGED <<classVars, token, base_url, message_queue,
                   unfinished_tasks, last_send_time, ref, future, join_wait,
                   postVars, cancelled>>

\* _start_worker(), line 141: self._worker_thread.start(); a Thread that
\* was started already raises RuntimeError
StartThread(t) ==
    /\ cpc[t] = "start_thread"
    /\ LET w == worker_thread[ref[t]] IN
       IF wpc[w] = "created"
       THEN /\ wpc' = Upd(wpc, w, "get")
            /\ cpc' = Upd(cpc, t, "put")
            /\ UNCHANGED outcome
       ELSE /\ XtEnd(t, "send", ref[t], "raised", "RuntimeError")
            /\ UNCHANGED wpc
    /\ UNCHANGED <<classVars, objVars, ref, future, wself, message,
                   last_message_time, current_time, sleep_time,
                   join_wait, postVars, cancelled>>

\* send(), lines 96-100: the message, with its own result queue, is put
Put(t) ==
    /\ cpc[t] = "put"
    /\ message_queue' = Upd(message_queue, ref[t],
                            Append(message_queue[ref[t]], t))
    /\ unfinished_tasks' = Upd(unfinished_tasks, ref[t],
                               unfinished_tasks[ref[t]] + 1)
    /\ future' = Upd(future, t, "empty")
    /\ enqueued' = Append(enqueued, t)
    /\ cpc' = Upd(cpc, t, "wait")
    /\ UNCHANGED <<classVars, token, base_url, worker_thread, last_send_time,
                   ref, outcome, workerVars, join_wait, posted, since_post,
                   cancelled>>

\* send(), line 104: result_queue.get() returns what was put
Wait(t) ==
    /\ cpc[t] = "wait"
    /\ future[t] \in {"true", "false"}
    /\ XtEnd(t, "send", ref[t], "returned", future[t] = "true")
    /\ UNCHANGED <<classVars, objVars, ref, future, workerVars, join_wait,
                   postVars, cancelled>>

\* a message of the queue whose send() has given up waiting: its result
\* queue is read by nobody
Orphan == 0

\* send(), lines 105-106: result_queue.get(timeout=300) raises queue.Empty
\* and send raises RuntimeError.  The 300 seconds are not counted: they are
\* taken to pass only while the message lies in the queue of an object
\* that no live worker serves (a served message of the few that the
\* threads of a run have in flight gets its result long before).
WaitTimeout(t) ==
    /\ cpc[t] = "wait"
    /\ future[t] = "empty"
    /\ LET q == message_queue[ref[t]] IN
       /\ \E k \in DOMAIN q : q[k] = t
       /\ \A w \in Workers : ~(Alive(w) /\ wself[w] = ref[t])
       /\ message_queue' =
            Upd(message_queue, ref[t],
                [k \in DOMAIN q |-> IF q[k] = t THEN Orphan ELSE q[k]])
    /\ XtEnd(t, "send", ref[t], "raised", "RuntimeError")
    /\ UNCHANGED <<classVars, token, base_url, unfinished_tasks,
                   worker_thread, last_send_time, ref, future, workerVars,
                   join_wait, postVars, cancelled>>

\* the thread has its result and is ready for its next call
XtReturn(t) ==
    /\ cpc[t] = "done"
    /\ cpc' = Upd(cpc, t, "idle")
    /\ outcome' = Upd(outcome, t, NoOutcome)
    /\ future' = Upd(future, t, "none")
    /\ posted' = Upd(posted, t, "none")
    /\ cancelled' = Upd(cancelled, t, FALSE)
    /\ enqueued' = SelectSeq(enqueued, LAMBDA u : u # t)
    /\ UNCHANGED <<classVars, objVars, ref, workerVars, join_wait,
                   since_post>>

(***************************************************************************)
(* reset(): with an object there, the queue is emptied message by message  *)
(* (False to the caller, task_done), the worker is joined for at most      *)
(* join_timeout, then the class attributes are cleared.                    *)
(***************************************************************************)
Reset(t) ==
    /\ t = Main
    /\ cpc[t] = "idle"
    /\ CASE instance = None ->
              /\ cpc' = Upd(cpc, t, "reset_end")
              /\ outcome' = Upd(outcome, t,
                                Outcome("reset", None, "none", None))
         [] instance # None /\ token[instance] = None ->
              \* the object has no _message_queue
              XtEnd(t, "reset", None, "raised", "AttributeError")
         [] OTHER ->
              /\ cpc' = Upd(cpc, t, "reset_drain")
              /\ outcome' = Upd(outcome, t,
                                Outcome("reset", None, "none", None))
    /\ UNCHANGED <<classVars, objVars, ref, future, workerVars, join_wait,
                   postVars, cancelled>>

\* as ResetDrain, without message.future.put(False): the messages are
\* taken from the queue and their callers are told nothing
ResetDrainSilent(t) ==
    /\ cpc[t] = "reset_drain"
    /\ LET q == message_queue[instance] IN
       IF q # <<>>
       THEN /\ message_queue' = Upd(message_queue, instance, Tail(q))
            /\ IF Head(q) = Orphan
               THEN UNCHANGED <<future, cancelled>>
               ELSE /\ cancelled' = Upd(cancelled, Head(q), TRUE)
                    /\ UNCHANGED future
            /\ unfinished_tasks' = Upd(unfinished_tasks, instance,
                                       unfinished_tasks[instance] - 1)
            /\ UNCHANGED <<cpc, join_wait>>
       ELSE /\ cpc' = Upd(cpc, t, "reset_join")
            /\ join_wait' = 0
            /\ UNCHANGED <<message_queue, future, cancelled,
                           unfinished_tasks>>
    /\ UNCHANGED <<classVars, token, base_url, worker_thread, last_send_time,
                   ref, outcome, workerVars, postVars>>

\* lines 236-244: while the queue is not empty a message is taken from it,
\* False is put in its result queue and the task is marked done
ResetDrain(t) ==
    /\ cpc[t] = "reset_drain"
    /\ LET q == message_queue[instance] IN
       IF q # <<>>
       THEN /\ message_queue' = Upd(message_queue, instance, Tail(q))
            /\ IF Head(q) = Orphan
               THEN UNCHANGED <<future, cancelled>>
               ELSE /\ future' = Upd(future, Head(q), "false")
                    /\ cancelled' = Upd(cancelled, Head(q), TRUE)
            /\ unfinished_tasks' = Upd(unfinished_tasks, instance,
                                       unfinished_tasks[instance] - 1)
            /\ UNCHANGED <<cpc, join_wait>>
       ELSE /\ cpc' = Upd(cpc, t, "reset_join")
            /\ join_wait' = 0
            /\ UNCHANGED <<message_queue, future, cancelled,
                           unfinished_tasks>>
    /\ UNCHANGED <<classVars, token, base_url, worker_thread, last_send_time,
                   ref, outcome, workerVars, postVars>>

ResetJoin(t) ==
    /\ cpc[t] = "reset_join"
    /\ \/ ~Alive(worker_thread[instance])
       \/ join_wait >= join_timeout
    /\ cpc' = Upd(cpc, t, "reset_end")
    /\ join_wait' = 0
    /\ UNCHANGED <<classVars, objVars, ref, future, outcome, workerVars,
                   postVars, cancelled>>

ResetEnd(t) ==
    /\ cpc[t] = "reset_end"
    /\ instance' = None
    /\ initialized' = FALSE
    /\ XtEnd(t, "reset", None, "returned", None)
    /\ UNCHANGED <<created, objVars, ref, future, workerVars, join_wait,
                   postVars, cancelled>>

(***************************************************************************)
(* _worker_loop of worker thread w.                                        *)
(***************************************************************************)
\* lines 154-155, 167-173: a message is there; current_time is read, and
\* sleep_time is what is missing to min_interval since _last_send_time
WorkerGet(w) ==
    /\ wpc[w] = "get"
    /\ message_queue[wself[w]] # <<>>
    /\ message' = Upd(message, w, Head(message_queue[wself[w]]))
    /\ message_queue' = Upd(message_queue, wself[w],
                            Tail(message_queue[wself[w]]))
    /\ last_message_time' = Upd(last_message_time, w, 0)
    /\ current_time' = Upd(current_time, w, 0)
    /\ LET since == last_send_time[wself[w]] IN
       IF since < min_interval
       THEN /\ sleep_time' = Upd(sleep_time, w, min_interval - since)
            /\ wpc' = Upd(wpc, w, "sleep")
       ELSE /\ sleep_time' = Upd(sleep_time, w, 0)
            /\ wpc' = Upd(wpc, w, "post")
    /\ UNCHANGED <<classVars, token, base_url, unfinished_tasks,
                   worker_thread, last_send_time, cpc, ref, future, outcome,
                   wself, join_wait, postVars, cancelled>>

\* lines 156-164: queue.Empty (the get has waited its second on an empty
\* queue); the loop is left when a message was handled before and
\* idle_timeout has passed since, and goes on otherwise
WorkerEmpty(w) ==
    /\ wpc[w] = "get"
    /\ message_queue[wself[w]] = <<>>
    /\ IF last_message_time[w] # None /\ last_message_time[w] >= idle_timeout
       THEN wpc' = Upd(wpc, w, "exiting")
       ELSE UNCHANGED wpc
    /\ UNCHANGED <<classVars, objVars, cpc, ref, future, outcome, wself,
                   message, last_message_time, current_time, sleep_time,
                   join_wait, postVars, cancelled>>

\* the thread ends: is_alive() is False from now on
WorkerExit(w) ==
    /\ wpc[w] = "exiting"
    /\ wpc' = Upd(wpc, w, "dead")
    /\ last_message_time' = Upd(last_message_time, w, None)
    /\ UNCHANGED <<classVars, objVars, cpc, ref, future, outcome, wself,
                   message, current_time, sleep_time, join_wait,
                   postVars, cancelled>>

\* lines 175-177: the sleep is over, current_time is read again
WorkerWake(w) ==
    /\ wpc[w] = "sleep"
    /\ sleep_time[w] = 0
    /\ current_time' = Upd(current_time, w, 0)
    /\ wpc' = Upd(wpc, w, "post")
    /\ UNCHANGED <<classVars, objVars, cpc, ref, future, outcome, wself,
                   message, last_message_time, sleep_time,
                   join_wait, postVars, cancelled>>

\* line 181, 127: requests.post is called
PostStart(w) ==
    /\ wpc[w] = "post"
    /\ wpc' = Upd(wpc, w, "posting")
    /\ posted' = (IF message[w] = Orphan THEN posted
                  ELSE Upd(posted, message[w], "started"))
    /\ since_post' = Upd(since_post, wself[w], 0)
    /\ UNCHANGED <<classVars, objVars, cpc, ref, future, outcome, wself,
                   message, last_message_time, current_time, sleep_time,
                   join_wait, cancelled, enqueued>>

\* lines 127-131, 182-190: the post returns or raises; _last_send_time is
\* set when it returned; the result goes to the message's future and the
\* task is done
PostEnd(w) ==
    /\ wpc[w] = "posting"
    /\ \E success \in BOOLEAN :
         /\ last_send_time' =
              (IF success
               THEN Upd(last_send_time, wself[w], current_time[w])
               ELSE last_send_time)
         /\ IF message[w] = Orphan
            THEN UNCHANGED <<future, posted>>
            ELSE /\ future' = Upd(future, message[w],
                                  IF success THEN "true" ELSE "false")
                 /\ posted' = Upd(posted, message[w],
                                  IF success THEN "ok" ELSE "failed")
    /\ unfinished_tasks' = Upd(unfinished_tasks, wself[w],
                               unfinished_tasks[wself[w]] - 1)
    /\ message' = Upd(message, w, None)
    /\ current_time' = Upd(current_time, w, 0)
    /\ wpc' = Upd(wpc, w, "get")
    /\ UNCHANGED <<classVars, token, base_url, message_queue, worker_thread,
                   cpc, ref, outcome, wself, last_message_time, sleep_time,
                   join_wait, cancelled, enqueued, since_post>>

(***************************************************************************)
(* One second passes: every age grows up to the value it is compared with, *)
(* every sleep gets shorter.                                               *)
(***************************************************************************)
Tick ==
    /\ last_send_time' =
         [i \in Instances |-> Min(last_send_time[i] + 1, min_interval)]
    /\ last_message_time' =
         [w \in Workers |->
            IF last_message_time[w] = None THEN None
            ELSE Min(last_message_time[w] + 1, idle_timeout)]
    /\ current_time' =
         [w \in Workers |->
            IF wpc[w] \in {"post", "posting"}
            THEN Min(current_time[w] + 1, min_interval)
            ELSE current_time[w]]
    /\ sleep_time' =
         [w \in Workers |->
            IF wpc[w] = "sleep" /\ sleep_time[w] > 0
            THEN sleep_time[w] - 1 ELSE sleep_time[w]]
    /\ join_wait' =
         (IF cpc[Main] = "reset_join"
          THEN Min(join_wait + 1, join_timeout) ELSE join_wait)
    /\ since_post' =
         [i \in Instances |->
            IF since_post[i] = None THEN None
            ELSE Min(since_post[i] + 1, min_interval)]
    /\ UNCHANGED <<classVars, token, base_url, message_queue,
                   unfinished_tasks, worker_thread, cpc, ref, future, outcome,
                   wpc, wself, message, posted, cancelled, enqueued>>

(***************************************************************************)
(* SpecXt: the threads and the workers of the notifier, any interleaving.  *)
(***************************************************************************)
NextXt ==
    \/ \E tok \in Tokens \cup {None} :
         Construct(Main, tok) /\ UNCHANGED <<dbVars, logVars, glVars>>
    \/ \E t \in Threads : GetInstance(t) /\ UNCHANGED <<dbVars, logVars, glVars>>
    \/ \E t \in Threads : Send(t) /\ UNCHANGED <<dbVars, logVars, glVars>>
    \/ \E t \in Threads : StartThread(t) /\ UNCHANGED <<dbVars, logVars, glVars>>
    \/ \E t \in Threads : Put(t) /\ UNCHANGED <<dbVars, logVars, glVars>>
    \/ \E t \in Threads : Wait(t) /\ UNCHANGED <<dbVars, logVars, glVars>>
    \/ \E t \in Threads : WaitTimeout(t) /\ UNCHANGED <<dbVars, logVars, glVars>>
    \/ \E t \in Threads : XtReturn(t) /\ UNCHANGED <<dbVars, logVars, glVars>>
    \/ Reset(Main) /\ UNCHANGED <<dbVars, logVars, glVars>>
    \/ ResetDrain(Main) /\ UNCHANGED <<dbVars, logVars, glVars>>
    \/ ResetJoin(Main) /\ UNCHANGED <<dbVars, logVars, glVars>>
    \/ ResetEnd(Main) /\ UNCHANGED <<dbVars, logVars, glVars>>
    \/ \E w \in Workers : WorkerGet(w) /\ UNCHANGED <<dbVars, logVars, glVars>>
    \/ \E w \in Workers : WorkerEmpty(w) /\ UNCHANGED <<dbVars, logVars, glVars>>
    \/ \E w \in Workers : WorkerExit(w) /\ UNCHANGED <<dbVars, logVars, glVars>>
    \/ \E w \in Workers : WorkerWake(w) /\ UNCHANGED <<dbVars, logVars, glVars>>
    \/ \E w \in Workers : PostStart(w) /\ UNCHANGED <<dbVars, logVars, glVars>>
    \/ \E w \in Workers : PostEnd(w) /\ UNCHANGED <<dbVars, logVars, glVars>>
    \/ Tick /\ UNCHANGED <<dbVars, logVars, glVars>>

SpecXt == InitXt(NumThreads, MaxWorkers, MaxInstances) /\ [][NextXt]_vars

(***************************************************************************)
(* SpecXtRace: concurrent send() calls on one object, with room for a      *)
(* second Thread object.  Here the test of _start_worker (line 135) and    *)
(* the creation of the Thread (136-140) are steps of their own: another    *)
(* thread may run between them.  (In SpecXt, with one Thread object, the   *)
(* two are the one step Send.)  Every thread makes one send().             *)
(***************************************************************************)
RaceThreads == 2
RaceWorkers == 2
RaceInstances == 1

\* send(), lines 88-93, and the test of _start_worker(), line 135
SendBegin(t) ==
    /\ cpc[t] = "idle"
    /\ ref[t] # None
    /\ IF ~initialized
       THEN XtEnd(t, "send", ref[t], "raised", "RuntimeError")
       ELSE /\ outcome' = Upd(outcome, t,
                              Outcome("send", ref[t], "none", None))
            /\ cpc' = Upd(cpc, t, IF NeedsWorker(ref[t])
                                  THEN "make_thread" ELSE "put")
    /\ UNCHANGED <<classVars, objVars, ref, future, workerVars, join_wait,
                   postVars, cancelled>>

\* _start_worker(), lines 136-140: self._worker_thread = threading.Thread(...)
MakeThread(t) ==
    /\ cpc[t] = "make_thread"
    /\ NewThread(ref[t])
    /\ cpc' = Upd(cpc, t, "start_thread")
    /\ UNCHANGED <<classVars, token, base_url, message_queue,
                   unfinished_tasks, last_send_time, ref, future, outcome,
                   join_wait, postVars, cancelled>>

NextXtRace ==
    \/ \E tok \in Tokens \cup {None} :
         Construct(Main, tok) /\ UNCHANGED <<dbVars, logVars, glVars>>
    \/ \E t \in Threads : GetInstance(t) /\ UNCHANGED <<dbVars, logVars, glVars>>
    \/ \E t \in Threads : SendBegin(t) /\ UNCHANGED <<dbVars, logVars, glVars>>
    \/ \E t \in Threads : MakeThread(t) /\ UNCHANGED <<dbVars, logVars, glVars>>
    \/ \E t \in Threads : StartThread(t) /\ UNCHANGED <<dbVars, logVars, glVars>>
    \/ \E t \in Threads : Put(t) /\ UNCHANGED <<dbVars, logVars, glVars>>
    \/ \E t \in Threads : Wait(t) /\ UNCHANGED <<dbVars, logVars, glVars>>
    \/ \E t \in Threads : WaitTimeout(t) /\ UNCHANGED <<dbVars, logVars, glVars>>
    \/ \E t \in Threads :
         /\ outcome[t].call # "send"
         /\ XtReturn(t) /\ UNCHANGED <<dbVars, logVars, glVars>>
    \/ \E w \in Workers : WorkerGet(w) /\ UNCHANGED <<dbVars, logVars, glVars>>
    \/ \E w \in Workers : WorkerEmpty(w) /\ UNCHANGED <<dbVars, logVars, glVars>>
    \/ \E w \in Workers : WorkerExit(w) /\ UNCHANGED <<dbVars, logVars, glVars>>
    \/ \E w \in Workers : WorkerWake(w) /\ UNCHANGED <<dbVars, logVars, glVars>>
    \/ \E w \in Workers : PostStart(w) /\ UNCHANGED <<dbVars, logVars, glVars>>
    \/ \E w \in Workers : PostEnd(w) /\ UNCHANGED <<dbVars, logVars, glVars>>
    \/ Tick /\ UNCHANGED <<dbVars, logVars, glVars>>

SpecXtRace ==
    InitXt(RaceThreads, RaceWorkers, RaceInstances) /\ [][NextXtRace]_vars

\* the acquisition of the attempt of caller t has raised in a retried
\* operation, and the except clauses of the loop are about to run
AcquisitionFailed(t) ==
    /\ op[t] \in RetryOps
    /\ pc[t] = "except"
    /\ exc[t].at \in {"acquire", "init_pool"}

\* C31: when the acquisition of an attempt of a retried operation raises,
\* the attempt makes no cursor, statement, commit, rollback or close; a
\* transient error counts as an attempt: with attempts left the backoff
\* delay of the attempt is slept and the next attempt acquires again, on
\* the last attempt the error is raised without a sleep; a non-transient
\* error is raised at once, without sleep and without another attempt; a
\* transient acquisition error reaches the caller only from the last
\* attempt.
C31_AcquisitionFailureIsAttempt ==
    /\ [](\A t \in Callers :
            /\ AcquisitionFailed(t) =>
                 /\ Positions(trace[t], {"cursor", "stmt", "commit",
                                         "rollback", "cursor_close",
                                         "close"}) = {}
                 /\ exc[t].n = attempt[t]
            /\ (/\ op[t] \in RetryOps
                /\ pc[t] = "done"
                /\ result[t].status = "raised"
                /\ result[t].exc.at \in {"acquire", "init_pool"}
                /\ IsTransient(result[t].exc)) =>
                 /\ result[t].exc.n = retry_count[t] - 1
                 /\ attempt[t] = retry_count[t])
    /\ [][\A t \in Callers :
            (AcquisitionFailed(t) /\ pc'[t] # "except") =>
              IF IsTransient(exc[t])
              THEN /\ attempt'[t] = attempt[t] + 1
                   /\ IF attempt[t] < retry_count[t] - 1
                      THEN /\ pc'[t] = "get_conn"
                           /\ hist'[t].sleeps =
                                Append(hist[t].sleeps,
                                       Delay(retry_delay[t], attempt[t]))
                           /\ trace'[t][Len(trace'[t])] =
                                Ev("sleep", Delay(retry_delay[t], attempt[t]))
                           /\ borrowed' = borrowed
                      ELSE /\ pc'[t] = "done"
                           /\ result'[t] = Raised(exc[t])
                           /\ hist'[t].sleeps = hist[t].sleeps
              ELSE /\ pc'[t] = "done"
                   /\ result'[t] = Raised(exc[t])
                   /\ attempt'[t] = attempt[t]
                   /\ hist'[t].sleeps = hist[t].sleeps]_vars

\* the second attempt of a call is about to acquire, after a first attempt
\* whose acquisition raised a transient error and that slept its delay
C31_Witness ==
    \E t \in Callers :
      /\ op[t] \in RetryOps
      /\ pc[t] = "get_conn"
      /\ attempt[t] = 1
      /\ last_error[t].at = "acquire"
      /\ trace[t][1] = Fail("acquire", "transient")
      /\ Len(hist[t].sleeps) = 1

\* the sleeps of a call whose first n attempts failed and were retried
Backoff(rd, n) == [i \in 1..n |-> rd * (2 ^ (i - 1))]

\* the driver calls
DriverCalls == {"init_pool", "acquire", "cursor", "stmt", "commit",
                "rollback"}

\* C37: a retried operation called with retry_count = N >= 1 whose attempts
\* all failed with transient errors has slept N - 1 times, for
\* retry_delay * 2^0, ..., retry_delay * 2^(N-2) in this order, and not
\* after the last attempt; no sleep follows an attempt that succeeded, and
\* none follows an attempt in which a driver call raised a non-transient
\* error.
C37_SleepCount ==
    \A t \in Callers :
      op[t] \in RetryOps =>
        /\ (/\ pc[t] = "done" /\ retry_count[t] >= 1
            /\ result[t].status = "raised"
            /\ IsTransient(result[t].exc)) =>
             /\ hist[t].sleeps = Backoff(retry_delay[t], retry_count[t] - 1)
             /\ Count(trace[t], "sleep") = 0
        /\ (pc[t] = "done" /\ result[t].status = "returned") =>
             Count(trace[t], "sleep") = 0
        /\ (\E i \in Raising(trace[t], DriverCalls) :
              trace[t][i].out = "fatal") =>
             Count(trace[t], "sleep") = 0

\* what holds: the sleeps of an exhausted call are as claimed, no sleep
\* follows a success, and no sleep follows an attempt that left its try
\* block with a non-transient error: a call that raises one has slept once
\* for each attempt before the last and not after it.
C37_SleepsOnExhaustion ==
    \A t \in Callers :
      op[t] \in RetryOps =>
        /\ (/\ pc[t] = "done" /\ retry_count[t] >= 1
            /\ result[t].status = "raised"
            /\ IsTransient(result[t].exc)) =>
             /\ hist[t].sleeps = Backoff(retry_delay[t], retry_count[t] - 1)
             /\ Count(trace[t], "sleep") = 0
        /\ (pc[t] = "done" /\ result[t].status = "returned") =>
             Count(trace[t], "sleep") = 0
        /\ (/\ pc[t] = "done" /\ result[t].status = "raised"
            /\ ~IsTransient(result[t].exc)) =>
             /\ Count(trace[t], "sleep") = 0
             /\ hist[t].sleeps = Backoff(retry_delay[t], attempt[t])

\* the body of the transaction ended without raising and the commit of the
\* scope exit raised
CommitFailed(t) == BodyFinished(t) /\ Raising(trace[t], {"commit"}) # {}
\* the exception the commit raised
CommitError(t) ==
    LET i == CHOOSE j \in Raising(trace[t], {"commit"}) : TRUE
    IN  Exc(trace[t][i].out, "commit", attempt[t])

\* C38: when the body of a transaction() scope ended without raising and
\* the commit raised, the scope has issued one commit and then exactly one
\* rollback, has closed the cursor once and the connection once, and raises
\* the error of the commit.
C38_CommitFailure ==
    \A t \in Callers :
      (pc[t] = "done" /\ CommitFailed(t)) =>
        /\ Count(trace[t], "commit") = 1
        /\ Count(trace[t], "rollback") = 1
        /\ Precede(trace[t], {"commit"}, {"rollback"})
        /\ Count(trace[t], "cursor_close") = 1
        /\ Count(trace[t], "close") = 1
        /\ \A c \in Acquired(trace[t]) : Closes(trace[t], c) = 1
        /\ result[t] = Raised(CommitError(t))

\* what holds: the calls are as claimed, and the scope raises the error of
\* the commit when the rollback returned, the error of the rollback when
\* the rollback raised
C38_CommitFailureCalls ==
    \A t \in Callers :
      (pc[t] = "done" /\ CommitFailed(t)) =>
        /\ Count(trace[t], "commit") = 1
        /\ Count(trace[t], "rollback") = 1
        /\ Precede(trace[t], {"commit"}, {"rollback"})
        /\ Count(trace[t], "cursor_close") = 1
        /\ Count(trace[t], "close") = 1
        /\ \A c \in Acquired(trace[t]) : Closes(trace[t], c) = 1
        /\ result[t].status = "raised"
        /\ Raising(trace[t], {"rollback"}) = {} =>
             result[t] = Raised(CommitError(t))
        /\ Raising(trace[t], {"rollback"}) # {} =>
             result[t].exc.at = "rollback"

\* C39: a retried operation whose arguments pass the validation and that is
\* called with retry_count <= 0 is over at once: it raises the RuntimeError
\* of the statement after the loop, and has acquired no connection, made no
\* driver call and not slept; it never returns a result.
C39_ZeroAttempts ==
    \A t \in Callers :
      (/\ op[t] \in RetryOps
       /\ retry_count[t] <= 0
       /\ Validate(op[t], args[t].data_empty, args[t].where_empty) = "go") =>
        /\ pc[t] = "done"
        /\ result[t] = Raised(RuntimeError)
        /\ hist[t] = NoHist
        /\ trace[t] = <<>>

\* an insert with data and retry_count = -1 has raised the RuntimeError
C39_Witness ==
    \E t \in Callers :
      /\ op[t] = "insert" /\ ~args[t].data_empty
      /\ retry_count[t] = -1
      /\ pc[t] = "done"
      /\ result[t] = Raised(RuntimeError)

\* the records of level warning or error in a trace (each of them is
\* written with error=str(e))
ErrorLogs(tr) == Positions(tr, {"log_warning", "log_error"})

\* C32: a call that has raised has written a warning or error record in its
\* last attempt, and every backoff sleep follows a warning record.
C32_EveryFailureLogged ==
    \A t \in Callers :
      /\ (pc[t] = "done" /\ result[t].status = "raised") =>
           ErrorLogs(trace[t]) # {}
      /\ \A i \in Positions(trace[t], {"sleep"}) :
           i > 1 /\ trace[t][i - 1].ev = "log_warning"

\* what holds: a public operation that raises an error of the driver or of
\* the body of a transaction, other than after a failed rollback or a failed
\* cursor() call, has logged it; every backoff sleep follows a warning record
C32_DriverFailureLogged ==
    \A t \in Callers :
      /\ (/\ pc[t] = "done"
          /\ op[t] # "get_cursor"
          /\ result[t].status = "raised"
          /\ result[t].exc.at \notin {"validate", "exhausted", "rollback",
                                      "cursor"}) =>
           ErrorLogs(trace[t]) # {}
      /\ \A i \in Positions(trace[t], {"sleep"}) :
           i > 1 /\ trace[t][i - 1].ev = "log_warning"

(***************************************************************************)
(* Claims about XiaTuiNotifier.                                            *)
(***************************************************************************)
\* worker w makes the step that calls requests.post
PostStarts(w) == wpc[w] = "post" /\ wpc'[w] = "posting"

\* C23: two consecutive posts of the notifier are started at least
\* min_interval apart: whenever a worker starts a post, the notifier has
\* started no post before or started its latest one min_interval or longer
\* ago, whether that one succeeded or failed.
C23_PushRateLimit ==
    [][\A w \in Workers :
         PostStarts(w) =>
           \/ since_post[wself[w]] = None
           \/ since_post[wself[w]] >= min_interval]_vars

\* the send() of thread t has ended and the thread still holds the result
SendEnded(t) == cpc[t] = "done" /\ outcome[t].call = "send"

\* While a send() holds its result: if it returned, it returned True
\* exactly when the post made for its own message succeeded, and False when
\* that post failed or when reset() took the message from the queue; if
\* the post of its message failed it returned False and did not raise; if
\* it raised, no post was made for its message until then.
C24_ResultOfOwnPost ==
    \A t \in Threads :
      SendEnded(t) =>
        LET o == outcome[t] IN
        /\ o.status = "returned" =>
             /\ o.value \in BOOLEAN
             /\ o.value <=> posted[t] = "ok"
             /\ ~o.value => posted[t] = "failed" \/ cancelled[t]
        /\ posted[t] = "failed" => o.status = "returned" /\ o.value = FALSE
        /\ posted[t] = "ok" => o.status = "returned" /\ o.value = TRUE
        /\ o.status = "raised" => posted[t] = "none"

\* worker w makes the step on which its post returns or raises
PostEnds(w) == wpc[w] = "posting" /\ wpc'[w] = "get"

\* C24: send() returns True exactly when the post made for its message
\* succeeded and False when that post failed, never an exception, and the
\* value is that of the caller's own message: a send() that holds its
\* result holds the one of its own post, and no post succeeds or fails for
\* a message whose send() has raised.
C24_SendResult ==
    /\ []C24_ResultOfOwnPost
    /\ [][\A w \in Workers : PostEnds(w) => message[w] # Orphan]_vars

\* the main thread makes the step of a construction
Constructs ==
    /\ cpc[Main] = "idle" /\ cpc'[Main] = "done"
    /\ outcome'[Main].call = "construct"

\* C26: between two resets every construction returns the same object, the
\* token and the base URL of the object are those of the first successful
\* initialisation, a token given to a later construction is ignored, and a
\* first construction without a token raises ValueError.
C26_SingletonToken ==
    /\ [](initialized =>
            /\ instance # None
            /\ token[instance] # None
            /\ base_url[instance] = BaseUrl(token[instance]))
    /\ [][/\ (instance # None /\ instance' # None) => instance' = instance
          /\ (initialized /\ initialized') =>
               /\ instance' = instance
               /\ token'[instance] = token[instance]
               /\ base_url'[instance] = base_url[instance]
          /\ Constructs =>
               LET o == outcome'[Main] IN
               /\ o.status = "returned" =>
                    /\ o.value = instance' /\ initialized'
                    /\ instance # None => o.value = instance
               /\ initialized => o.status = "returned"
               /\ (~initialized /\ o.arg = None) =>
                    /\ o.status = "raised" /\ o.value = "ValueError"
                    /\ ~initialized'
               /\ (~initialized /\ o.arg # None) =>
                    /\ o.status = "returned"
                    /\ token'[instance'] = o.arg
                    /\ base_url'[instance'] = BaseUrl(o.arg)]_vars

\* a later construction with another token has returned the singleton,
\* whose token is still the first one
C26_Witness ==
    /\ cpc[Main] = "done"
    /\ outcome[Main].call = "construct"
    /\ outcome[Main].status = "returned"
    /\ outcome[Main].arg # None
    /\ initialized
    /\ outcome[Main].value = instance
    /\ token[instance] # outcome[Main].arg

\* thread t makes the step of get_instance()
GetsInstance(t) ==
    /\ cpc[t] = "idle" /\ cpc'[t] = "done"
    /\ outcome'[t].call = "get_instance"

\* C27: get_instance() returns None whenever the class is not initialised,
\* also after a first construction that failed for want of a token, and
\* returns the singleton only when the class is initialised.
C27_GetInstance ==
    [][\A t \in Threads :
         GetsInstance(t) =>
           /\ outcome'[t].status = "returned"
           /\ ~initialized => outcome'[t].value = None
           /\ outcome'[t].value # None =>
                initialized /\ outcome'[t].value = instance]_vars

\* the messages of a queue
InQueue(q) == {q[k] : k \in DOMAIN q}

\* reset() takes the first message from the queue of the singleton
ResetTakes ==
    /\ cpc[Main] = "reset_drain"
    /\ message_queue[instance] # <<>>
    /\ message_queue'[instance] = Tail(message_queue[instance])
    /\ message' = message

\* C28: every message that reset() finds in the queue has False delivered
\* to its caller and is marked done; no post is made for it, before or
\* after, and its send() returns False; when reset() has returned the class
\* has no instance and is not initialised, and a construction without a
\* token raises ValueError again.
C28_ResetCancels ==
    /\ [](\A t \in Threads :
            cancelled[t] =>
              /\ posted[t] = "none"
              /\ future[t] = "false"
              /\ \A i \in Instances : t \notin InQueue(message_queue[i])
              /\ \A w \in Workers : message[w] # t
              /\ SendEnded(t) =>
                   /\ outcome[t].status = "returned"
                   /\ outcome[t].value = FALSE)
    /\ []((/\ cpc[Main] = "done"
           /\ outcome[Main].call = "reset"
           /\ outcome[Main].status = "returned")
          => instance = None /\ ~initialized)
    /\ [][/\ ResetTakes =>
               LET m == Head(message_queue[instance]) IN
               /\ unfinished_tasks'[instance] =
                    unfinished_tasks[instance] - 1
               /\ m # Orphan =>
                    /\ posted[m] = "none"
                    /\ future'[m] = "false"
                    /\ cancelled'[m]
          /\ (Constructs /\ instance = None /\ outcome'[Main].arg = None) =>
               outcome'[Main].status = "raised"]_vars

\* reset() has returned, and the send() whose message it took from the
\* queue has returned False without a post
C28_Witness ==
    /\ cpc[Main] = "done"
    /\ outcome[Main].call = "reset"
    /\ outcome[Main].status = "returned"
    /\ instance = None /\ ~initialized
    /\ \E t \in Threads :
         /\ SendEnded(t) /\ cancelled[t]
         /\ outcome[t].value = FALSE
         /\ posted[t] = "none"

(***************************************************************************)
(* SpecXtFair: the notifier on one object, with a scheduler that lets      *)
(* every worker thread and every call that has begun go on, and time pass. *)
(* A thread that is not in a call need not make one.                       *)
(***************************************************************************)
\* objects of a run of SpecXtFair
FairInstances == 1

\* a call that has begun goes on
XtProgress(t) ==
    \/ StartThread(t)
    \/ Put(t)
    \/ Wait(t)
    \/ WaitTimeout(t)
    \/ XtReturn(t)
    \/ ResetDrain(t)
    \/ ResetJoin(t)
    \/ ResetEnd(t)

\* the thread of worker w runs
WorkerStep(w) ==
    \/ WorkerGet(w)
    \/ WorkerEmpty(w)
    \/ WorkerExit(w)
    \/ WorkerWake(w)
    \/ PostStart(w)
    \/ PostEnd(w)

SpecXtFair ==
    /\ InitXt(NumThreads, MaxWorkers, FairInstances)
    /\ [][NextXt]_vars
    /\ \A t \in 1..NumThreads : WF_vars(XtProgress(t) /\ UNCHANGED <<dbVars, logVars, glVars>>)
    /\ \A w \in 1..MaxWorkers : WF_vars(WorkerStep(w) /\ UNCHANGED <<dbVars, logVars, glVars>>)
    /\ WF_vars(Tick /\ UNCHANGED <<dbVars, logVars, glVars>>)

\* every queue is empty
QueuesEmpty == \A i \in Instances : message_queue[i] = <<>>

\* C25: once the message queue is empty and stays empty, every worker
\* thread that was started ends: from some time on no worker is alive,
\* also one that never took a message from the queue.
C25_WorkerTermination ==
    (<>[]QueuesEmpty) => <>[](\A w \in Workers : ~Alive(w))

\* Once the queue stays empty, every worker that has taken a message from
\* the queue ends: only a worker that never took one stays alive.
C25_WorkerWithMessageEnds ==
    (<>[]QueuesEmpty) =>
      <>[](\A w \in Workers : Alive(w) => last_message_time[w] = None)

\* the message of thread t lies in the queue of its object, the thread
\* waits for its result, and no live worker serves the object
Stranded(t) ==
    /\ cpc[t] = "wait"
    /\ future[t] = "empty"
    /\ t \in InQueue(message_queue[ref[t]])
    /\ \A w \in Workers : ~(Alive(w) /\ wself[w] = ref[t])

\* C33: every send() that has put its message and waits for the result
\* gets a result in the end (the one of its post; False from a reset() that
\* took the message counts as well).
C33_NoStrandedMessage ==
    \A t \in 1..NumThreads :
      (cpc[t] = "wait" /\ future[t] = "empty")
        ~> (future[t] \in {"true", "false"})

\* the live worker threads that run the loop of object i
LiveWorkers(i) == {w \in Workers : Alive(w) /\ wself[w] = i}

\* thread t makes the step of line 141 that starts a worker thread
StartsWorker(t) ==
    /\ cpc[t] = "start_thread"
    /\ cpc'[t] = "put"

\* C34: an object has at most one live worker thread at any time, and a
\* send() starts a worker thread only when the object has none alive.
C34_SingleWorker ==
    /\ [](\A i \in Instances : Cardinality(LiveWorkers(i)) <= 1)
    /\ [][\A t \in Threads : StartsWorker(t) => LiveWorkers(ref[t]) = {}]_vars

\* FIFO order of the posts of one worker: a post that starts is never that
\* of a message put after one that still waits for its post
PostsInPutOrder ==
    \A w \in Workers :
      (PostStarts(w) /\ message[w] # Orphan) =>
        \A k \in DOMAIN enqueued :
          (/\ enqueued[k] # message[w]
           /\ cpc[enqueued[k]] = "wait"
           /\ posted[enqueued[k]] = "none"
           /\ ~cancelled[enqueued[k]]) =>
            \E j \in DOMAIN enqueued : j < k /\ enqueued[j] = message[w]

\* C35: the posts are made in the order of the puts: when the post of a
\* message starts, every message that was put before it and whose send()
\* still waits has had its post started.
C35_FifoDelivery == [][PostsInPutOrder]_vars

(***************************************************************************)
(* LoggerManager: init_logging, get_logger, the log functions and reset.   *)
(* The calls are made one after the other.                                 *)
(***************************************************************************)
logConfig == <<lm_initialized, root_level, root_handlers, structlog_level>>

\* log_file or config.logging.file or 'logs/app.log'
LogFileOf(log_file, cfg_file) ==
    IF log_file # Unset THEN log_file
    ELSE IF cfg_file # Unset THEN cfg_file
    ELSE "logs/app.log"

\* as InitLoggingResult, without the test of _initialized: every call
\* configures again
InitLoggingResultNoGuard(log_level, log_file, cfg_level, cfg_file, fs_ok) ==
    LET cur == [status |-> "returned", value |-> None,
                initialized |-> lm_initialized,
                root_level |-> root_level,
                root_handlers |-> root_handlers,
                structlog_level |-> structlog_level,
                config |-> NoConfig]
    IN  IF /\ log_level = Unset \/ log_file = Unset
           /\ Upper(cfg_level) \notin LevelNames
        THEN [cur EXCEPT !.status = "raised", !.value = "ValueError"]
        ELSE
          LET level == LevelOf(IF log_level # Unset THEN log_level
                               ELSE Upper(cfg_level))
              file == LogFileOf(log_file, cfg_file)
          IN  IF ~fs_ok
              THEN [cur EXCEPT !.status = "raised", !.value = "OSError",
                               !.root_level = level,
                               !.root_handlers = {ConsoleHandler(level)}]
              ELSE [status |-> "returned", value |-> None,
                    initialized |-> TRUE,
                    root_level |-> level,
                    root_handlers |-> {ConsoleHandler(level),
                                       FileHandler(level, file)},
                    structlog_level |-> level,
                    config |-> <<level, file>>]

\* LoggerManager.init_logging(log_level, log_file), lines 39-217, with the
\* settings cfg_level and cfg_file; fs_ok: the log directory and the log
\* file can be made.  It gives how the call ends and what it leaves.
\*   39-40   initialised: return
\*   43-45   config.logging is read when an argument is missing; it raises
\*           ValueError when LOG_LEVEL is not a level
\*   48-62   the root logger gets the level and one console handler
\*   65-136  the log directory and the file handler are made (OSError)
\*   179-217 structlog is configured, _initialized = True
InitLoggingResult(log_level, log_file, cfg_level, cfg_file, fs_ok) ==
    LET cur == [status |-> "returned", value |-> None,
                initialized |-> lm_initialized,
                root_level |-> root_level,
                root_handlers |-> root_handlers,
                structlog_level |-> structlog_level,
                config |-> NoConfig]
    IN  IF lm_initialized THEN cur
        ELSE IF /\ log_level = Unset \/ log_file = Unset
                /\ Upper(cfg_level) \notin LevelNames
        THEN [cur EXCEPT !.status = "raised", !.value = "ValueError"]
        ELSE
          LET level == LevelOf(IF log_level # Unset THEN log_level
                               ELSE Upper(cfg_level))
              file == LogFileOf(log_file, cfg_file)
          IN  IF ~fs_ok
              THEN [cur EXCEPT !.status = "raised", !.value = "OSError",
                               !.root_level = level,
                               !.root_handlers = {ConsoleHandler(level)}]
              ELSE [status |-> "returned", value |-> None,
                    initialized |-> TRUE,
                    root_level |-> level,
                    root_handlers |-> {ConsoleHandler(level),
                                       FileHandler(level, file)},
                    structlog_level |-> level,
                    config |-> <<level, file>>]

\* what the run of init_logging leaves, and the history of the call
ApplyInit(r) ==
    /\ lm_initialized' = r.initialized
    /\ root_level' = r.root_level
    /\ root_handlers' = r.root_handlers
    /\ structlog_level' = r.structlog_level
    /\ called' = TRUE
    /\ returned' = (returned \/ r.status = "returned")
    /\ first_config' = (IF r.config # NoConfig THEN r.config
                        ELSE first_config)
    /\ UNCHANGED lm_logger

\* init_logging(log_level, log_file), lines 243-252
InitLogging(log_level, log_file, cfg_level, cfg_file, fs_ok) ==
    LET r == InitLoggingResult(log_level, log_file, cfg_level, cfg_file,
                               fs_ok)
    IN  /\ ApplyInit(r)
        /\ lcall' = LCall("init_logging", r.status,
                          IF r.status = "raised" THEN r.value
                          ELSE <<log_level, log_file>>)

\* get_logger(name), lines 255-270 and 219-233: init_logging() without
\* arguments when not initialised, then structlog.get_logger(name)
GetLogger(cfg_level, cfg_file, fs_ok) ==
    LET r == InitLoggingResult(Unset, Unset, cfg_level, cfg_file, fs_ok)
    IN  /\ ApplyInit(r)
        /\ lcall' = LCall("get_logger", r.status,
                          IF r.status = "raised" THEN r.value ELSE "logger")

\* debug, info, warning, error, critical, exception, lines 274-301:
\* get_logger().<fn>(msg); the record is written when the level of the
\* function is not below the level structlog was configured with
LogCall(fn, cfg_level, cfg_file, fs_ok) ==
    LET r == InitLoggingResult(Unset, Unset, cfg_level, cfg_file, fs_ok)
    IN  /\ ApplyInit(r)
        /\ lcall' = LCall(fn, r.status,
                          IF r.status = "raised" THEN r.value
                          ELSE LevelNo(FunctionLevel(fn)) >=
                                 LevelNo(r.structlog_level))

\* LoggerManager.reset(), lines 235-239
LogReset ==
    /\ lm_initialized' = FALSE
    /\ lm_logger' = None
    /\ lcall' = LCall("reset", "returned", None)
    /\ called' = FALSE
    /\ returned' = FALSE
    /\ first_config' = NoConfig
    /\ UNCHANGED <<root_level, root_handlers, structlog_level>>

NextLog ==
    \/ \E log_level \in LevelArgs, log_file \in FileArgs,
          cfg_level \in ConfigLevels, cfg_file \in ConfigFiles,
          fs_ok \in BOOLEAN :
         /\ InitLogging(log_level, log_file, cfg_level, cfg_file, fs_ok)
         /\ UNCHANGED <<dbVars, xtVars, glVars>>
    \/ \E cfg_level \in ConfigLevels, cfg_file \in ConfigFiles,
          fs_ok \in BOOLEAN :
         /\ GetLogger(cfg_level, cfg_file, fs_ok)
         /\ UNCHANGED <<dbVars, xtVars, glVars>>
    \/ \E fn \in LogFunctions, cfg_level \in ConfigLevels,
          cfg_file \in ConfigFiles, fs_ok \in BOOLEAN :
         /\ LogCall(fn, cfg_level, cfg_file, fs_ok)
         /\ UNCHANGED <<dbVars, xtVars, glVars>>
    \/ LogReset /\ UNCHANGED <<dbVars, xtVars, glVars>>

SpecLog == Init /\ [][NextLog]_vars

\* the calls that initialise when needed
InitCalls == {"init_logging", "get_logger"} \cup LogFunctions

\* what an initialisation with level and file leaves
ConfiguredAs(config) ==
    /\ root_level = config[1]
    /\ structlog_level = config[1]
    /\ root_handlers = {ConsoleHandler(config[1]),
                        FileHandler(config[1], config[2])}

\* C29: _initialized is True exactly when init_logging, get_logger or a
\* log function was called after the last reset; get_logger and the log
\* functions initialise when the manager is not initialised; init_logging
\* on an initialised manager changes nothing and the first configuration
\* stays; reset sets _initialized to False.
C29_LoggerLifecycle ==
    /\ [](lm_initialized <=> called)
    /\ [](lm_initialized =>
            first_config # NoConfig /\ ConfiguredAs(first_config))
    /\ [][/\ lcall'.call \in InitCalls \ {"init_logging"} => lm_initialized'
          /\ (lm_initialized /\ lcall'.call = "init_logging") =>
               UNCHANGED <<logConfig, first_config>>
          /\ lcall'.call = "reset" =>
               ~lm_initialized' /\ lm_logger' = None]_vars

\* C29 for the calls that return: _initialized is True exactly when
\* init_logging, get_logger or a log function has returned after the last
\* reset; a call of them on a manager that is not initialised either
\* initialises it and returns or raises and leaves it not initialised;
\* init_logging on an initialised manager changes nothing and the first
\* configuration stays; reset sets _initialized to False.
C29_LoggerLifecycleReturned ==
    /\ [](lm_initialized <=> returned)
    /\ [](lm_initialized =>
            first_config # NoConfig /\ ConfiguredAs(first_config))
    /\ [][/\ lcall'.call \in InitCalls =>
               (lm_initialized' <=> lcall'.status = "returned")
          /\ (lm_initialized /\ lcall'.call \in InitCalls) =>
               /\ lcall'.status = "returned"
               /\ UNCHANGED <<logConfig, first_config>>
          /\ lcall'.call = "reset" =>
               ~lm_initialized' /\ lm_logger' = None]_vars

\* init_logging with a level of its own has returned on a manager that was
\* initialised before with another level, which is still the one in force
C29_Witness ==
    /\ lcall.call = "init_logging"
    /\ lcall.status = "returned"
    /\ lm_initialized
    /\ lcall.value[1] # Unset
    /\ LevelOf(lcall.value[1]) # first_config[1]
    /\ ConfiguredAs(first_config)


(***************************************************************************)
(* init_mysql_client and get_mysql_client (mysql_client.py, 605-636),      *)
(* called by several threads.  MySQLClient() makes a pool (_init_pool) and *)
(* raises what _init_pool or get_config raises.                            *)
(***************************************************************************)
GlobalThreads == 2
MaxClients == 3

GThreads == DOMAIN gpc

\* the call of thread t ends
GEnd(t, status, value) ==
    /\ gpc' = Upd(gpc, t, "done")
    /\ gresult' = Upd(gresult, t, [status |-> status, value |-> value])

\* get_mysql_client, line 633: if _mysql_client is None
GetMysqlClient(t) ==
    /\ gpc[t] = "idle"
    /\ gcall' = Upd(gcall, t, "get")
    /\ gresult' = Upd(gresult, t, NoGResult)
    /\ gpc' = Upd(gpc, t, IF mysql_client = None
                          THEN "construct" ELSE "return")
    /\ UNCHANGED <<mysql_client, clients, lazy, replaced>>

\* line 635: _mysql_client = MySQLClient()
GetConstruct(t) ==
    /\ gpc[t] = "construct"
    /\ \/ /\ clients < MaxClients
          /\ clients' = clients + 1
          /\ mysql_client' = clients + 1
          /\ lazy' = lazy \cup {clients + 1}
          /\ gpc' = Upd(gpc, t, "return")
          /\ UNCHANGED gresult
       \/ /\ GEnd(t, "raised", None)
          /\ UNCHANGED <<mysql_client, clients, lazy>>
    /\ UNCHANGED <<gcall, replaced>>

\* init_mysql_client, line 620: _mysql_client = MySQLClient(**kwargs)
InitMysqlClient(t) ==
    /\ gpc[t] = "idle"
    /\ gcall' = Upd(gcall, t, "init")
    /\ replaced' = TRUE
    /\ \/ /\ clients < MaxClients
          /\ clients' = clients + 1
          /\ mysql_client' = clients + 1
          /\ gpc' = Upd(gpc, t, "return")
          /\ gresult' = Upd(gresult, t, NoGResult)
       \/ /\ GEnd(t, "raised", None)
          /\ UNCHANGED <<mysql_client, clients>>
    /\ UNCHANGED lazy

\* lines 621 and 636: return _mysql_client
GlobalReturn(t) ==
    /\ gpc[t] = "return"
    /\ GEnd(t, "returned", mysql_client)
    /\ UNCHANGED <<mysql_client, clients, gcall, lazy, replaced>>

\* the thread goes on to its next call
GlobalNext(t) ==
    /\ gpc[t] = "done"
    /\ gpc' = Upd(gpc, t, "idle")
    /\ UNCHANGED <<mysql_client, clients, gcall, gresult, lazy, replaced>>

InitGlobal ==
    /\ DbInit(1, {MaxConnections})
    /\ XtInit(1, 1, 1)
    /\ LogInit
    /\ GlInit(GlobalThreads)

NextGlobal ==
    \/ \E t \in GThreads :
         GetMysqlClient(t) /\ UNCHANGED <<dbVars, xtVars, logVars>>
    \/ \E t \in GThreads :
         GetConstruct(t) /\ UNCHANGED <<dbVars, xtVars, logVars>>
    \/ \E t \in GThreads :
         InitMysqlClient(t) /\ UNCHANGED <<dbVars, xtVars, logVars>>
    \/ \E t \in GThreads :
         GlobalReturn(t) /\ UNCHANGED <<dbVars, xtVars, logVars>>
    \/ \E t \in GThreads :
         GlobalNext(t) /\ UNCHANGED <<dbVars, xtVars, logVars>>

SpecGlobal == InitGlobal /\ [][NextGlobal]_vars

\* what holds in every interleaving: a call returns the client the global
\* holds when it returns; a get_mysql_client that finds the global set makes
\* no client; a successful init_mysql_client sets the global to a client
\* made by the call; the global changes only to a client just made.  For
\* calls made one after the other this is the sequential part of C36.
AccessorSteps ==
    /\ \A t \in GThreads :
         /\ (gpc[t] = "return" /\ gpc'[t] = "done") =>
              /\ gresult'[t].status = "returned"
              /\ gresult'[t].value = mysql_client
              /\ mysql_client # None
         /\ (gpc[t] = "idle" /\ gpc'[t] = "return"
             /\ gcall'[t] = "get") =>
              /\ mysql_client # None
              /\ clients' = clients
              /\ mysql_client' = mysql_client
         /\ (gpc[t] = "idle" /\ gpc'[t] = "return"
             /\ gcall'[t] = "init") =>
              /\ clients' = clients + 1
              /\ mysql_client' = clients'
    /\ mysql_client' # mysql_client =>
         (clients' = clients + 1 /\ mysql_client' = clients')

C36_SequentialAccessor == [][AccessorSteps]_vars

\* C36: while init_mysql_client has not been called, the get_mysql_client
\* calls of all threads have made at most one client and have all returned
\* the same one; repeated calls return the client of the global, which
\* changes only when init_mysql_client (or a first get_mysql_client) sets
\* it to the client it has made.
C36_GlobalAccessor ==
    /\ [](~replaced =>
            /\ Cardinality(lazy) <= 1
            /\ \A t, u \in GThreads :
                 (gresult[t].status = "returned"
                  /\ gresult[u].status = "returned") =>
                   gresult[t].value = gresult[u].value)
    /\ [][AccessorSteps]_vars
=============================================================================
